---- MODULE Spec2Model ----
(***************************************************************************)
(* Model of MySqlStorage (src/src/mysql_storage.ts), the coordination      *)
(* storage of qtopology on MySQL.                                          *)
(*                                                                         *)
(* The store is the tables qtopology_worker and qtopology_topology with    *)
(* their history tables, and qtopology_message.  One storage instance      *)
(* (with its own next_refresh) executes one asynchronous operation at a    *)
(* time; every query it issues is one step.  Time is the value of          *)
(* Date.now() in milliseconds.                                             *)
(*                                                                         *)
(* In most specifications the instance is used sequentially: an operation  *)
(* runs to completion before the clock advances or another caller writes.  *)
(* The writes of other callers between two operations (setWorkerStatus,    *)
(* setWorkerLStatus, assignTopology, setTopologyStatus) are single steps,  *)
(* each a write that has run to completion. SpecWrites and SpecStop follow *)
(* a write statement by statement: the UPDATE, then the call of the        *)
(* history procedure.                                                      *)
(*                                                                         *)
(* Spec has the reading operations, deleteWorker and clearTopologyError;   *)
(* SpecStatus, SpecThrottle, SpecLeadership, SpecDelete, SpecClear,        *)
(* SpecMailbox, SpecWrites, SpecHistory, SpecStop, SpecAnnounce,           *)
(* SpecSweep, SpecLastHeartbeat and SpecOrphan have the callers of one     *)
(* family of operations each. In SpecAnnounce, SpecSweep and SpecFanout a  *)
(* query of a fan-out can fail.                                            *)
(*                                                                         *)
(* In SpecConcurrentSweeps, SpecHeartbeatRace, SpecAssignmentRace,         *)
(* SpecClearRace and SpecDeleteRace other callers write between two steps  *)
(* of the operation in flight: another instance runs its sweeps, a worker  *)
(* sends its heartbeat or acknowledges a topology, a topology is assigned. *)
(* In SpecOverlap a second getMessages call runs while the deletes of the  *)
(* first are in flight.                                                    *)
(***************************************************************************)
EXTENDS Integers, Sequences, FiniteSets, TLC

\* ------------------------------------------------------------------------
\* Bounds of the model

\* number of clock advances in a behaviour
MaxTicks == 2
\* history rows (of all entities together) after which callers issue no
\* further direct write
MaxHist == 2

\* the clock advances by one of these (ms); sums hit 10000/10001 and
\* 30000/30001, the two sides of the thresholds of the sweep
Deltas == {1, 10000, 30000}
\* the advances of SpecThrottle: 999 and 1000 are the two sides of the
\* refresh period, 30000 + 999 makes a waiting topology stale
ThrottleDeltas == {999, 1000, 30000}

\* an advance after which every earlier ping is older than 30 s
StaleDeltas == {30001}

WorkerNames == {"w1", "w2"}
TopologyIds == {"t1"}
\* a name and a uuid that no row has
UnknownWorker == "w9"
UnknownTopology == "t9"

\* a second topology, in the stores that have one
SecondTopology == "t2"

\* arguments of the operations that take a worker name: the workers are
\* interchangeable, so one registered name and the unknown one
CallNames == {"w1", UnknownWorker}

\* ------------------------------------------------------------------------
\* Vocabulary (qtopology.Consts) and thresholds

WorkerStatus == [alive |-> "alive", dead |-> "dead", unloaded |-> "unloaded"]
WorkerLStatus == [normal |-> "normal", candidate |-> "candidate", leader |-> "leader"]
TopologyStatus ==
    [unassigned |-> "unassigned", waiting |-> "waiting",
     running |-> "running", error |-> "error"]
LeadershipStatus == [ok |-> "ok", pending |-> "pending", vacant |-> "vacant"]

WorkerStatuses == {WorkerStatus.alive, WorkerStatus.dead, WorkerStatus.unloaded}
WorkerLStatuses == {WorkerLStatus.normal, WorkerLStatus.candidate, WorkerLStatus.leader}
TopologyStatuses ==
    {TopologyStatus.unassigned, TopologyStatus.waiting,
     TopologyStatus.running, TopologyStatus.error}

\* Date.now() - 30 * 1000 and Date.now() - 10 * 1000
limit1(t) == t - 30 * 1000
\* variant of limit2 that reuses the 30 s of limit1
limit2_as_limit1(t) == t - 30 * 1000

limit2(t) == t - 10 * 1000
\* self.next_refresh = Date.now() + 1000
RefreshPeriod == 1000

NoError == "none"
NoWorker == "none"
Empty == << >>

\* the error of a query that fails
ErrQuery == "query failed"

VARIABLES
    now,           \* Date.now()
    ticks,         \* clock advances so far (bounded by MaxTicks)
    workers,       \* table qtopology_worker: name -> row
    topologies,    \* table qtopology_topology: uuid -> row
    whist,         \* table qtopology_worker_history: name -> rows, oldest first
    thist,         \* table qtopology_topology_history: uuid -> rows, oldest first
    next_refresh,  \* this.next_refresh
    pc,            \* position of the operation in flight
    op,            \* the operation in flight and its argument
    frames,        \* dead_workers of the unassignWaitingTopologies calls whose
                   \* getTopologyStatus started a nested sweep
    wtodo,         \* async.each over workers: per worker the writes still to
                   \* run and the timestamp of the one issued
    dead_workers,  \* local of unassignWaitingTopologies
    ttodo,         \* async.each over topologies: writes issued, with timestamp
    result,        \* what the callback of the operation received
    pre,           \* the store as it was when the operation was called
    swept,         \* whether the operation's own refreshStatuses ran the sweeps
    refresh_log,   \* the calls of refreshStatuses of the last 1000 ms: the time of
                   \* each and whether it ran the sweeps
    messages,      \* table qtopology_message: the rows, each with its id
    sent,          \* rows inserted so far: the last auto-increment id
    mtodo,         \* async.each of getMessages: ids whose DELETE is in flight
    fetched,       \* per message id, how the last completed getMessages that
                   \* returned it ended: the row, whether its DELETE succeeded,
                   \* the error of the call
    writes         \* calls so far of the writes that are followed statement
                   \* by statement, of stopTopology and of
                   \* announceLeaderCandidacy (bounded by MaxWrites)

mail == <<messages, sent, mtodo, fetched>>
vars == <<now, ticks, workers, topologies, whist, thist, next_refresh, pc, op,
          frames, wtodo, dead_workers, ttodo, result, pre, swept, refresh_log,
          messages, sent, mtodo, fetched, writes>>

\* ------------------------------------------------------------------------
\* The store: rows, updates and the history procedures

\* worker rows with status dead or unloaded, as names
\* (unassignWaitingTopologies: data_workers.filter(...).map(x => x.name))
DeadWorkers(w) ==
    {n \in DOMAIN w : w[n].status = WorkerStatus.dead \/ w[n].status = WorkerStatus.unloaded}

\* UPDATE qtopology_worker SET status = ?, last_ping = ? WHERE name = ?
UpdateWorkerStatus(w, name, status, t) ==
    IF name \in DOMAIN w
    THEN [w EXCEPT ![name].status = status, ![name].last_ping = t]
    ELSE w

\* UPDATE qtopology_worker SET lstatus = ?, last_ping = ? WHERE name = ?
UpdateWorkerLStatus(w, name, lstatus, t) ==
    IF name \in DOMAIN w
    THEN [w EXCEPT ![name].lstatus = lstatus, ![name].last_ping = t]
    ELSE w

\* variant of UpdateTopologyStatus that also clears the worker column
UpdateTopologyStatus_clears_worker(tp, uuid, status, error, t) ==
    IF uuid \in DOMAIN tp
    THEN [tp EXCEPT ![uuid].status = status, ![uuid].last_ping = t, ![uuid].error = error,
                    ![uuid].worker = NoWorker]
    ELSE tp

\* UPDATE qtopology_topology SET status = ?, last_ping = ?, error = ? WHERE uuid = ?
UpdateTopologyStatus(tp, uuid, status, error, t) ==
    IF uuid \in DOMAIN tp
    THEN [tp EXCEPT ![uuid].status = status, ![uuid].last_ping = t, ![uuid].error = error]
    ELSE tp

\* UPDATE qtopology_topology SET worker = ?, last_ping = ?, status = 'waiting' WHERE uuid = ?
UpdateTopologyAssign(tp, uuid, name, t) ==
    IF uuid \in DOMAIN tp
    THEN [tp EXCEPT ![uuid].worker = name, ![uuid].last_ping = t,
                    ![uuid].status = TopologyStatus.waiting]
    ELSE tp

\* variant of DeleteWorkerRow whose filter is the name alone
DeleteWorkerRow_by_name(w, name) ==
    IF name \in DOMAIN w
    THEN [n \in DOMAIN w \ {name} |-> w[n]]
    ELSE w

\* DELETE FROM qtopology_worker WHERE name = ? AND status = 'unloaded'
DeleteWorkerRow(w, name) ==
    IF name \in DOMAIN w /\ w[name].status = WorkerStatus.unloaded
    THEN [n \in DOMAIN w \ {name} |-> w[n]]
    ELSE w

\* call qtopology_sp_add_worker_history(name): appends the current row
AddWorkerHistory(h, w, name) ==
    IF name \in DOMAIN w THEN [h EXCEPT ![name] = Append(@, w[name])] ELSE h

\* call qtopology_sp_add_topology_history(uuid): appends the current row
AddTopologyHistory(h, tp, uuid) ==
    IF uuid \in DOMAIN tp THEN [h EXCEPT ![uuid] = Append(@, tp[uuid])] ELSE h

\* ------------------------------------------------------------------------
\* Initial state: two registered workers and one registered topology at
\* time 0, a freshly constructed storage (next_refresh = 0), nothing in flight

NoOp == [name |-> "none", arg |-> "none"]
NoResult == [err |-> "none", workers |-> Empty, topologies |-> Empty, leadership |-> "none"]
NoPre == [now |-> 0, workers |-> Empty, topologies |-> Empty, whist |-> Empty,
          thist |-> Empty, next_refresh |-> 0, messages |-> {}]

Init ==
    /\ now = 0
    /\ ticks = 0
    /\ workers = [n \in WorkerNames |->
                    [status |-> WorkerStatus.alive, lstatus |-> WorkerLStatus.normal,
                     last_ping |-> 0]]
    /\ topologies = [u \in TopologyIds |->
                    [status |-> TopologyStatus.unassigned, worker |-> NoWorker,
                     last_ping |-> 0, error |-> NoError, enabled |-> TRUE,
                     weight |-> 1, worker_affinity |-> "", config |-> "{}"]]
    /\ whist = [n \in WorkerNames |-> << >>]
    /\ thist = [u \in TopologyIds |-> << >>]
    /\ next_refresh = 0
    /\ pc = "idle"
    /\ op = NoOp
    /\ frames = << >>
    /\ wtodo = Empty
    /\ dead_workers = {}
    /\ ttodo = Empty
    /\ result = NoResult
    /\ pre = NoPre
    /\ swept = FALSE
    /\ refresh_log = {}
    /\ messages = {}
    /\ sent = 0
    /\ mtodo = {}
    /\ fetched = Empty
    /\ writes = 0

\* bookkeeping of the calls of refreshStatuses
LogCall(log, t, ran) == log \cup {[at |-> t, ran |-> ran]}

\* a call made 1000 ms ago or earlier is less than 1000 ms apart from no
\* later call: the log forgets it
Recent(log, t) == {c \in log : t - c.at < RefreshPeriod}

\* ------------------------------------------------------------------------
\* The clock and the single-query operations.  Callers set the store up
\* before the clock first advances; afterwards the only direct write is a
\* worker's heartbeat, setWorkerStatus(name, alive).

RECURSIVE SumLen(_, _)
SumLen(h, names) ==
    IF names = {} THEN 0
    ELSE LET n == CHOOSE m \in names : TRUE
         IN Len(h[n]) + SumLen(h, names \ {n})

\* rows in the two history tables
HistoryRows == SumLen(whist, DOMAIN whist) + SumLen(thist, DOMAIN thist)

Advance(D) ==
    /\ pc = "idle"
    /\ ticks < MaxTicks
    /\ \E d \in D : now' = now + d
    /\ ticks' = ticks + 1
    /\ refresh_log' = Recent(refresh_log, now')
    /\ UNCHANGED <<mail, writes, workers, topologies, whist, thist, next_refresh, pc, op,
                   frames, wtodo, dead_workers, ttodo, result, pre, swept>>

Tick == Advance(Deltas)

TickThrottle == Advance(ThrottleDeltas)

\* the clock advancing past the 30 s of the sweeps
TickStale == Advance(StaleDeltas)

setWorkerStatus ==
    \E name \in WorkerNames, status \in WorkerStatuses :
        /\ pc = "idle"
        /\ HistoryRows < MaxHist
        /\ (ticks = 0 \/ status = WorkerStatus.alive)
        /\ workers' = UpdateWorkerStatus(workers, name, status, now)
        /\ whist' = AddWorkerHistory(whist, workers', name)
        /\ UNCHANGED <<mail, writes, now, ticks, topologies, thist, next_refresh, pc, op,
                       frames, wtodo, dead_workers, ttodo, result, pre, swept, refresh_log>>

setWorkerLStatus ==
    \E name \in WorkerNames, lstatus \in WorkerLStatuses :
        /\ pc = "idle"
        /\ HistoryRows < MaxHist
        /\ ticks = 0
        /\ workers' = UpdateWorkerLStatus(workers, name, lstatus, now)
        /\ whist' = AddWorkerHistory(whist, workers', name)
        /\ UNCHANGED <<mail, writes, now, ticks, topologies, thist, next_refresh, pc, op,
                       frames, wtodo, dead_workers, ttodo, result, pre, swept, refresh_log>>

assignTopology ==
    \E uuid \in TopologyIds, name \in WorkerNames :
        /\ pc = "idle"
        /\ HistoryRows < MaxHist
        /\ ticks = 0
        /\ topologies' = UpdateTopologyAssign(topologies, uuid, name, now)
        /\ thist' = AddTopologyHistory(thist, topologies', uuid)
        /\ UNCHANGED <<mail, writes, now, ticks, workers, whist, next_refresh, pc, op,
                       frames, wtodo, dead_workers, ttodo, result, pre, swept, refresh_log>>

setTopologyStatus ==
    \E uuid \in TopologyIds, status \in TopologyStatuses, error \in {NoError, "e1"} :
        /\ error # NoError => status \in {TopologyStatus.error, TopologyStatus.running}
        /\ pc = "idle"
        /\ HistoryRows < MaxHist
        /\ ticks = 0
        /\ topologies' = UpdateTopologyStatus(topologies, uuid, status, error, now)
        /\ thist' = AddTopologyHistory(thist, topologies', uuid)
        /\ UNCHANGED <<mail, writes, now, ticks, workers, whist, next_refresh, pc, op,
                       frames, wtodo, dead_workers, ttodo, result, pre, swept, refresh_log>>

\* ------------------------------------------------------------------------
\* refreshStatuses

\* if (Date.now() < self.next_refresh) return callback();
refreshThrottled(t, deadline) == t < deadline

\* variant of nextRefresh that adds one millisecond
nextRefresh_one_ms(t) == t + 1

\* self.next_refresh = Date.now() + 1000;
nextRefresh(t) == t + RefreshPeriod

Snapshot ==
    [now |-> now, workers |-> workers, topologies |-> topologies, whist |-> whist,
     thist |-> thist, next_refresh |-> next_refresh, messages |-> messages]

\* An operation that starts with self.refreshStatuses(...): the throttle is
\* checked in the call itself; either the sweeps start (the worker select of
\* disableDefunctWorkers is issued) or the operation's own query is issued.
CallWithRefresh(o) ==
    /\ pc = "idle"
    /\ op' = o
    /\ pre' = Snapshot
    /\ result' = NoResult
    /\ refresh_log' = LogCall(refresh_log, now, ~refreshThrottled(now, next_refresh))
    /\ IF refreshThrottled(now, next_refresh)
       THEN /\ pc' = "read"
            /\ swept' = FALSE
            /\ UNCHANGED next_refresh
       ELSE /\ pc' = "ddw"
            /\ swept' = TRUE
            /\ next_refresh' = nextRefresh(now)
    /\ UNCHANGED <<mail, writes, now, ticks, workers, topologies, whist, thist,
                   frames, wtodo, dead_workers, ttodo>>

getWorkerStatus == CallWithRefresh([name |-> "getWorkerStatus", arg |-> "none"])

getTopologyStatus == CallWithRefresh([name |-> "getTopologyStatus", arg |-> "none"])

getTopologiesForWorker ==
    \E name \in CallNames \ {UnknownWorker} :
        CallWithRefresh([name |-> "getTopologiesForWorker", arg |-> name])

getLeadershipStatus == CallWithRefresh([name |-> "getLeadershipStatus", arg |-> "none"])

deleteWorker ==
    \E name \in CallNames : CallWithRefresh([name |-> "deleteWorker", arg |-> name])

\* ------------------------------------------------------------------------
\* disableDefunctWorkers / disableDefunctWorkerSingle

\* variant of handleStatus that also demotes a worker pinged exactly 30 s ago
handleStatus_strict(worker, t) ==
    IF worker.status # WorkerStatus.alive THEN << >>
    ELSE IF worker.last_ping > limit1(t) THEN << >>
    ELSE << "status" >>

\* first task of the series: "handle status"
handleStatus(worker, t) ==
    IF worker.status # WorkerStatus.alive THEN << >>
    ELSE IF worker.last_ping >= limit1(t) THEN << >>
    ELSE << "status" >>

\* variant of handleLStatus without the 10 s timeout
handleLStatus_not_alive_only(worker, t) ==
    IF worker.lstatus # WorkerLStatus.normal /\ worker.status # WorkerStatus.alive
    THEN << "lstatus" >>
    ELSE << >>

\* variant of handleLStatus that only knows the 10 s timeout
handleLStatus_timeout_only(worker, t) ==
    IF worker.lstatus # WorkerLStatus.normal /\ worker.last_ping < limit2(t)
    THEN << "lstatus" >>
    ELSE << >>

\* second task of the series: "handle lstatus"
handleLStatus(worker, t) ==
    IF worker.lstatus # WorkerLStatus.normal /\ worker.status # WorkerStatus.alive
    THEN << "lstatus" >>
    ELSE IF worker.lstatus # WorkerLStatus.normal /\ worker.last_ping < limit2(t)
    THEN << "lstatus" >>
    ELSE << >>

\* variant of disableDefunctWorkerSingle that skips the "handle status" task
disableDefunctWorkerSingle_lstatus_only(worker, t) == handleLStatus(worker, t)

\* the writes disableDefunctWorkerSingle issues for a worker of the snapshot,
\* in order; both tasks decide on the snapshot row and on limits taken at t
disableDefunctWorkerSingle(worker, t) == handleStatus(worker, t) \o handleLStatus(worker, t)

\* variant of AfterWorkerSweep in which announceLeaderCandidacy goes on to the
\* topology sweep
AfterWorkerSweep_topology_sweep(o) == "uwt"

\* where the callback of disableDefunctWorkers continues: in refreshStatuses
\* with unassignWaitingTopologies, in announceLeaderCandidacy with the
\* candidacy routine
AfterWorkerSweep(o) == IF o.name = "announceLeaderCandidacy" THEN "announce" ELSE "uwt"

\* callback of getWorkerStatusInternal in disableDefunctWorkers: async.each
\* starts disableDefunctWorkerSingle for every row of the snapshot
disableDefunctWorkers ==
    /\ pc = "ddw"
    /\ LET todo == [n \in DOMAIN workers |->
                      [writes |-> disableDefunctWorkerSingle(workers[n], now), ts |-> now]]
       IN IF \A n \in DOMAIN todo : todo[n].writes = << >>
          THEN wtodo' = Empty /\ pc' = AfterWorkerSweep(op)
          ELSE wtodo' = todo /\ pc' = "ddw_write"
    /\ UNCHANGED <<mail, writes, now, ticks, workers, topologies, whist, thist, next_refresh, op,
                   frames, dead_workers, ttodo, result, pre, swept, refresh_log>>

\* one query of one worker's series completes: setWorkerStatus(name, dead) or
\* setWorkerLStatus(name, normal); the next task of that series is started
disableDefunctWorkerWrite ==
    /\ pc \in {"ddw_write", "ddw_failed"}
    /\ \E n \in DOMAIN wtodo :
        /\ wtodo[n].writes # << >>
        /\ workers' = IF Head(wtodo[n].writes) = "status"
                      THEN UpdateWorkerStatus(workers, n, WorkerStatus.dead, wtodo[n].ts)
                      ELSE UpdateWorkerLStatus(workers, n, WorkerLStatus.normal, wtodo[n].ts)
        /\ whist' = AddWorkerHistory(whist, workers', n)
        /\ LET rest == [wtodo EXCEPT ![n] = [writes |-> Tail(@.writes), ts |-> now]]
           IN IF \A m \in DOMAIN rest : rest[m].writes = << >>
              THEN /\ wtodo' = Empty
                   /\ pc' = IF pc = "ddw_failed" THEN "done" ELSE AfterWorkerSweep(op)
              ELSE wtodo' = rest /\ pc' = pc
    /\ UNCHANGED <<mail, writes, now, ticks, topologies, thist, next_refresh, op,
                   frames, dead_workers, ttodo, result, pre, swept, refresh_log>>

\* the SELECT of getWorkerStatusInternal in disableDefunctWorkers fails:
\* if (err) return callback(err), and every caller up to the operation
\* returns the error
disableDefunctWorkersFails ==
    /\ pc = "ddw"
    /\ result' = [result EXCEPT !.err = ErrQuery]
    /\ pc' = "done"
    /\ frames' = << >>
    /\ dead_workers' = {}
    /\ UNCHANGED <<mail, writes, now, ticks, workers, topologies, whist, thist,
                   next_refresh, op, wtodo, ttodo, pre, swept, refresh_log>>

\* variant of eachCallback without the once(): every failing item calls the
\* final callback
eachCallback_every_error(res, item, e) ==
    IF "callbacks" \in DOMAIN res
    THEN [res EXCEPT !.err = e, !.callbacks = @ + 1, !.from = item,
                     !.errors = Append(@, item)]
    ELSE [err |-> e, callbacks |-> 1, from |-> item, errors |-> << item >>] @@ res

\* async.each: an item's callback with an error invokes the final callback,
\* which is wrapped in once(), so only the first error reaches the caller.
\* res is what the caller's callback has received; callbacks counts its
\* invocations with an error, from is the item whose error it was handed,
\* errors the items that failed, in the order they failed.
eachCallback(res, item, e) ==
    IF "callbacks" \in DOMAIN res
    THEN [res EXCEPT !.errors = Append(@, item)]
    ELSE [err |-> e, callbacks |-> 1, from |-> item, errors |-> << item >>] @@ res

\* variant of disableDefunctWorkerWriteFails after which refreshStatuses goes
\* on to the topology sweep
disableDefunctWorkerWriteFails_goes_on ==
    /\ pc \in {"ddw_write", "ddw_failed"}
    /\ \E n \in DOMAIN wtodo :
        /\ wtodo[n].writes # << >>
        /\ result' = eachCallback(result, n, ErrQuery)
        /\ LET rest == [wtodo EXCEPT ![n] = [writes |-> << >>, ts |-> now]]
           IN IF \A m \in DOMAIN rest : rest[m].writes = << >>
              THEN wtodo' = Empty /\ pc' = "uwt"
              ELSE wtodo' = rest /\ pc' = "ddw_failed"
    /\ frames' = << >>
    /\ dead_workers' = {}
    /\ UNCHANGED <<mail, writes, now, ticks, workers, topologies, whist, thist,
                   next_refresh, op, ttodo, pre, swept, refresh_log>>

\* one query of one worker's series fails: async.series drops the tasks left
\* of that worker, async.each hands the first error to the callback of
\* disableDefunctWorkers at once, and the series of the other workers, already
\* started, run on
disableDefunctWorkerWriteFails ==
    /\ pc \in {"ddw_write", "ddw_failed"}
    /\ \E n \in DOMAIN wtodo :
        /\ wtodo[n].writes # << >>
        /\ result' = eachCallback(result, n, ErrQuery)
        /\ LET rest == [wtodo EXCEPT ![n] = [writes |-> << >>, ts |-> now]]
           IN IF \A m \in DOMAIN rest : rest[m].writes = << >>
              THEN wtodo' = Empty /\ pc' = "done"
              ELSE wtodo' = rest /\ pc' = "ddw_failed"
    /\ frames' = << >>
    /\ dead_workers' = {}
    /\ UNCHANGED <<mail, writes, now, ticks, workers, topologies, whist, thist,
                   next_refresh, op, ttodo, pre, swept, refresh_log>>

\* ------------------------------------------------------------------------
\* unassignWaitingTopologies

\* let limit = Date.now() - 30 * 1000;
limit(t) == t - 30 * 1000

\* variant of unassignTopology that treats a waiting topology like a running one
unassignTopology_any_dead(topology, t, dead) ==
    \/ topology.status = TopologyStatus.waiting /\ topology.last_ping < limit(t)
    \/ topology.worker \in dead

\* whether the sweep unassigns a topology of its snapshot
unassignTopology(topology, t, dead) ==
    IF topology.status = TopologyStatus.waiting /\ topology.last_ping < limit(t)
    THEN TRUE
    ELSE IF topology.status = TopologyStatus.running /\ topology.worker \in dead
    THEN TRUE
    ELSE FALSE

\* the refresh has called back: a nested one resumes the getTopologyStatus of
\* the unassignWaitingTopologies that called it, the outermost one resumes
\* the operation
RefreshDone ==
    IF frames = << >>
    THEN pc' = "read" /\ frames' = frames /\ dead_workers' = {}
    ELSE /\ pc' = "uwt_topologies"
         /\ dead_workers' = frames[Len(frames)]
         /\ frames' = SubSeq(frames, 1, Len(frames) - 1)

\* variant of data_workers: the rows as they were before the worker sweep
data_workers_before_sweep == pre.workers

\* the rows getWorkerStatusInternal hands to unassignWaitingTopologies: the
\* table as it is when the worker sweep has completed
data_workers == workers

\* callback of getWorkerStatusInternal in unassignWaitingTopologies: computes
\* dead_workers and calls getTopologyStatus, which calls refreshStatuses again
unassignWaitingTopologies ==
    /\ pc = "uwt"
    /\ refresh_log' = LogCall(refresh_log, now, ~refreshThrottled(now, next_refresh))
    /\ IF refreshThrottled(now, next_refresh)
       THEN /\ dead_workers' = DeadWorkers(data_workers)
            /\ pc' = "uwt_topologies"
            /\ UNCHANGED <<next_refresh, frames>>
       ELSE /\ frames' = Append(frames, DeadWorkers(data_workers))
            /\ dead_workers' = {}
            /\ next_refresh' = nextRefresh(now)
            /\ pc' = "ddw"
    /\ UNCHANGED <<mail, writes, now, ticks, workers, topologies, whist, thist, op,
                   wtodo, ttodo, result, pre, swept>>

\* callback of getTopologyStatus in unassignWaitingTopologies: async.each
\* issues setTopologyStatus(uuid, unassigned, null) for the topologies chosen
unassignTopologiesEach ==
    /\ pc = "uwt_topologies"
    /\ LET chosen == {u \in DOMAIN topologies :
                        unassignTopology(topologies[u], now, dead_workers)}
       IN IF chosen = {}
          THEN ttodo' = Empty /\ RefreshDone
          ELSE /\ ttodo' = [u \in chosen |-> now]
               /\ pc' = "uwt_write"
               /\ UNCHANGED <<frames, dead_workers>>
    /\ UNCHANGED <<mail, writes, now, ticks, workers, topologies, whist, thist, next_refresh, op,
                   wtodo, result, pre, swept, refresh_log>>

\* one setTopologyStatus(uuid, unassigned, null) of the fan-out completes
unassignTopologyWrite ==
    /\ pc \in {"uwt_write", "uwt_failed"}
    /\ \E u \in DOMAIN ttodo :
        /\ topologies' = UpdateTopologyStatus(topologies, u, TopologyStatus.unassigned,
                                              NoError, ttodo[u])
        /\ thist' = AddTopologyHistory(thist, topologies', u)
        /\ LET rest == [v \in DOMAIN ttodo \ {u} |-> ttodo[v]]
           IN IF DOMAIN rest = {}
              THEN /\ ttodo' = Empty
                   /\ IF pc = "uwt_failed"
                      THEN pc' = "done" /\ UNCHANGED <<frames, dead_workers>>
                      ELSE RefreshDone
              ELSE ttodo' = rest /\ UNCHANGED <<pc, frames, dead_workers>>
    /\ UNCHANGED <<mail, writes, now, ticks, workers, whist, next_refresh, op,
                   wtodo, result, pre, swept, refresh_log>>

\* one setTopologyStatus(uuid, unassigned, null) of the fan-out fails:
\* async.each hands the first error to the callback of
\* unassignWaitingTopologies at once, every caller up to the operation returns
\* it, and the writes of the other topologies, already issued, run on
unassignTopologyWriteFails ==
    /\ pc \in {"uwt_write", "uwt_failed"}
    /\ \E u \in DOMAIN ttodo :
        /\ result' = eachCallback(result, u, ErrQuery)
        /\ LET rest == [v \in DOMAIN ttodo \ {u} |-> ttodo[v]]
           IN IF DOMAIN rest = {}
              THEN ttodo' = Empty /\ pc' = "done"
              ELSE ttodo' = rest /\ pc' = "uwt_failed"
    /\ frames' = << >>
    /\ dead_workers' = {}
    /\ UNCHANGED <<mail, writes, now, ticks, workers, topologies, whist, thist,
                   next_refresh, op, wtodo, pre, swept, refresh_log>>

\* ------------------------------------------------------------------------
\* Other callers while an operation of this instance is in flight.  The
\* store is shared: another coordinator instance runs its own sweeps, workers
\* send their heartbeats and acknowledgements, the leader assigns topologies.
\* Each of their queries falls between two steps of the operation in flight.

\* one write of disableDefunctWorkerSingle applied to a worker row
SweepWrite(row, write, t) ==
    IF write = "status"
    THEN [row EXCEPT !.status = WorkerStatus.dead, !.last_ping = t]
    ELSE [row EXCEPT !.lstatus = WorkerLStatus.normal, !.last_ping = t]

\* the rows of a worker after each write of a series, in order
SweepWrites(row, plan, t) ==
    IF plan = << >> THEN << >>
    ELSE IF Len(plan) = 1 THEN << SweepWrite(row, plan[1], t) >>
    ELSE << SweepWrite(row, plan[1], t),
            SweepWrite(SweepWrite(row, plan[1], t), plan[2], t) >>

\* disableDefunctWorkers run to its end on the worker table w at time t
WorkerSweep(w, t) ==
    [n \in DOMAIN w |->
        LET rows == SweepWrites(w[n], disableDefunctWorkerSingle(w[n], t), t)
        IN IF rows = << >> THEN w[n] ELSE rows[Len(rows)]]

\* the worker history after that sweep: one row per write
WorkerSweepHistory(h, w, t) ==
    [n \in DOMAIN h |->
        IF n \in DOMAIN w
        THEN h[n] \o SweepWrites(w[n], disableDefunctWorkerSingle(w[n], t), t)
        ELSE h[n]]

\* unassignWaitingTopologies run to its end on the topology table tp at time
\* t, with the worker table w it selects
TopologySweep(tp, w, t) ==
    [u \in DOMAIN tp |->
        IF unassignTopology(tp[u], t, DeadWorkers(w))
        THEN [tp[u] EXCEPT !.status = TopologyStatus.unassigned, !.last_ping = t,
                           !.error = NoError]
        ELSE tp[u]]

\* the topology history after that sweep
TopologySweepHistory(h, tp, w, t) ==
    [u \in DOMAIN h |->
        IF u \in DOMAIN tp /\ unassignTopology(tp[u], t, DeadWorkers(w))
        THEN Append(h[u], TopologySweep(tp, w, t)[u])
        ELSE h[u]]

\* positions of an operation whose refresh is running its sweeps
Sweeping == {"ddw", "ddw_write", "uwt", "uwt_topologies", "uwt_write"}

\* refreshStatuses of another instance, with its own next_refresh, while the
\* refresh of this instance is running: its two sweeps, from its worker
\* select to its last write, between two steps of this instance
otherInstanceRefresh ==
    /\ pc \in Sweeping
    /\ workers' = WorkerSweep(workers, now)
    /\ whist' = WorkerSweepHistory(whist, workers, now)
    /\ topologies' = TopologySweep(topologies, workers', now)
    /\ thist' = TopologySweepHistory(thist, topologies, workers', now)
    /\ UNCHANGED <<mail, writes, now, ticks, next_refresh, pc, op, frames, wtodo,
                   dead_workers, ttodo, result, pre, swept, refresh_log>>

\* setWorkerStatus by another caller while an operation of this instance is
\* in flight: a worker's heartbeat or its return to alive
setWorkerStatusConcurrent ==
    \E name \in WorkerNames :
        /\ pc \notin {"idle", "done"}
        /\ name \in DOMAIN whist /\ Len(whist[name]) < MaxHist
        /\ workers' = UpdateWorkerStatus(workers, name, WorkerStatus.alive, now)
        /\ whist' = AddWorkerHistory(whist, workers', name)
        /\ UNCHANGED <<mail, writes, now, ticks, topologies, thist, next_refresh, pc, op,
                       frames, wtodo, dead_workers, ttodo, result, pre, swept, refresh_log>>

\* setTopologyStatus by another caller while an operation of this instance
\* is in flight: a worker's acknowledgement that the topology is running
setTopologyStatusConcurrent ==
    \E uuid \in TopologyIds :
        /\ pc \notin {"idle", "done"}
        /\ Len(thist[uuid]) < MaxHist
        /\ topologies' = UpdateTopologyStatus(topologies, uuid, TopologyStatus.running,
                                              NoError, now)
        /\ thist' = AddTopologyHistory(thist, topologies', uuid)
        /\ UNCHANGED <<mail, writes, now, ticks, workers, whist, next_refresh, pc, op,
                       frames, wtodo, dead_workers, ttodo, result, pre, swept, refresh_log>>

\* assignTopology by another caller while an operation of this instance is
\* in flight
assignTopologyConcurrent ==
    \E uuid \in TopologyIds, name \in WorkerNames :
        /\ pc \notin {"idle", "done"}
        /\ Len(thist[uuid]) < MaxHist
        /\ topologies' = UpdateTopologyAssign(topologies, uuid, name, now)
        /\ thist' = AddTopologyHistory(thist, topologies', uuid)
        /\ UNCHANGED <<mail, writes, now, ticks, workers, whist, next_refresh, pc, op,
                       frames, wtodo, dead_workers, ttodo, result, pre, swept, refresh_log>>

\* ------------------------------------------------------------------------
\* The operation's own query, after its refresh

ErrNotUnloaded == "Specified worker is not unloaded and cannot be deleted."
ErrNoWorker == "Specified worker doesn't exist and thus cannot be deleted."
ErrNoTopology == "Requested topology not found"
ErrNotError == "Specified topology is not marked as error"

\* CALL qtopology_sp_worker_statuses(): one row (lstatus, cnt) per lstatus
\* that some worker has
qtopology_sp_worker_statuses(w) ==
    {[lstatus |-> l, cnt |-> Cardinality({n \in DOMAIN w : w[n].lstatus = l})] :
        l \in {w[n].lstatus : n \in DOMAIN w}}

\* variant of leadership that answers ok for exactly one leader only
leadership_one_leader(data) ==
    IF \E x \in data : x.lstatus = WorkerLStatus.leader /\ x.cnt = 1
    THEN LeadershipStatus.ok
    ELSE IF \E x \in data : x.lstatus = WorkerLStatus.candidate /\ x.cnt > 0
    THEN LeadershipStatus.pending
    ELSE LeadershipStatus.vacant

\* variant of leadership that looks for candidates first
leadership_candidate_first(data) ==
    IF \E x \in data : x.lstatus = WorkerLStatus.candidate /\ x.cnt > 0
    THEN LeadershipStatus.pending
    ELSE IF \E x \in data : x.lstatus = WorkerLStatus.leader /\ x.cnt > 0
    THEN LeadershipStatus.ok
    ELSE LeadershipStatus.vacant

\* the classification of getLeadershipStatus over the rows of the procedure
leadership(data) ==
    IF \E x \in data : x.lstatus = WorkerLStatus.leader /\ x.cnt > 0
    THEN LeadershipStatus.ok
    ELSE IF \E x \in data : x.lstatus = WorkerLStatus.candidate /\ x.cnt > 0
    THEN LeadershipStatus.pending
    ELSE LeadershipStatus.vacant

\* SELECT ... FROM qtopology_topology WHERE worker = ?
topologiesForWorker(tp, name) ==
    [u \in {v \in DOMAIN tp : tp[v].worker = name} |-> tp[u]]

\* variant of deleteWorkerCheck that lets every worker that is not alive through
deleteWorkerCheck_not_alive(data, name) ==
    IF name \in DOMAIN data
    THEN IF data[name].status # WorkerStatus.alive THEN "delete" ELSE ErrNotUnloaded
    ELSE ErrNoWorker

\* the outcome of deleteWorker's look at the rows of getWorkerStatus
deleteWorkerCheck(data, name) ==
    IF name \in DOMAIN data
    THEN IF data[name].status = WorkerStatus.unloaded THEN "delete" ELSE ErrNotUnloaded
    ELSE ErrNoWorker

\* callback of the query that follows the refresh
readAfterRefresh ==
    /\ pc = "read"
    /\ CASE op.name = "getWorkerStatus" ->
              /\ result' = [result EXCEPT !.workers = workers]
              /\ pc' = "done"
         [] op.name = "getTopologyStatus" ->
              /\ result' = [result EXCEPT !.topologies = topologies]
              /\ pc' = "done"
         [] op.name = "getTopologiesForWorker" ->
              /\ result' = [result EXCEPT !.topologies = topologiesForWorker(topologies, op.arg)]
              /\ pc' = "done"
         [] op.name = "getLeadershipStatus" ->
              /\ result' = [result EXCEPT
                              !.leadership = leadership(qtopology_sp_worker_statuses(workers))]
              /\ pc' = "done"
         [] op.name = "deleteWorker" ->
              LET check == deleteWorkerCheck(workers, op.arg)
              IN IF check = "delete"
                 THEN pc' = "dw_delete" /\ result' = [result EXCEPT !.workers = workers]
                 ELSE pc' = "done" /\ result' = [result EXCEPT !.err = check, !.workers = workers]
    /\ UNCHANGED <<mail, writes, now, ticks, workers, topologies, whist, thist, next_refresh, op,
                   frames, wtodo, dead_workers, ttodo, pre, swept, refresh_log>>

\* the DELETE of deleteWorker completes
deleteWorkerQuery ==
    /\ pc = "dw_delete"
    /\ workers' = DeleteWorkerRow(workers, op.arg)
    /\ pc' = "done"
    /\ UNCHANGED <<mail, writes, now, ticks, topologies, whist, thist, next_refresh, op,
                   frames, wtodo, dead_workers, ttodo, result, pre, swept, refresh_log>>

\* ------------------------------------------------------------------------
\* clearTopologyError: getTopologyInfo, then setTopologyStatus

clearTopologyError ==
    \E uuid \in TopologyIds \cup {UnknownTopology} :
        /\ pc = "idle"
        /\ op' = [name |-> "clearTopologyError", arg |-> uuid]
        /\ pre' = Snapshot
        /\ result' = NoResult
        /\ pc' = "cte_info"
        /\ swept' = FALSE
        /\ UNCHANGED <<mail, writes, now, ticks, workers, topologies, whist, thist, next_refresh,
                       frames, wtodo, dead_workers, ttodo, refresh_log>>

\* variant of clearTopologyErrorCheck that does not look at the status
clearTopologyErrorCheck_any_status(tp, uuid) ==
    IF uuid \notin DOMAIN tp THEN ErrNoTopology ELSE "clear"

\* the outcome of clearTopologyError's look at the row of getTopologyInfo
clearTopologyErrorCheck(tp, uuid) ==
    IF uuid \notin DOMAIN tp THEN ErrNoTopology
    ELSE IF tp[uuid].status # TopologyStatus.error THEN ErrNotError
    ELSE "clear"

\* callback of getTopologyInfo in clearTopologyError
getTopologyInfo ==
    /\ pc = "cte_info"
    /\ LET check == clearTopologyErrorCheck(topologies, op.arg)
       IN IF check = "clear"
          THEN pc' = "cte_write" /\ ttodo' = [u \in {op.arg} |-> now] /\ result' = result
          ELSE pc' = "done" /\ ttodo' = ttodo /\ result' = [result EXCEPT !.err = check]
    /\ UNCHANGED <<mail, writes, now, ticks, workers, topologies, whist, thist, next_refresh, op,
                   frames, wtodo, dead_workers, pre, swept, refresh_log>>

\* the setTopologyStatus(uuid, unassigned, null) of clearTopologyError completes
clearTopologyErrorWrite ==
    /\ pc = "cte_write"
    /\ topologies' = UpdateTopologyStatus(topologies, op.arg, TopologyStatus.unassigned,
                                          NoError, ttodo[op.arg])
    /\ thist' = AddTopologyHistory(thist, topologies', op.arg)
    /\ ttodo' = Empty
    /\ pc' = "done"
    /\ UNCHANGED <<mail, writes, now, ticks, workers, whist, next_refresh, op,
                   frames, wtodo, dead_workers, result, pre, swept, refresh_log>>

\* the caller's callback has run; the instance is idle again
Return ==
    /\ pc = "done"
    /\ pc' = "idle"
    /\ op' = NoOp
    /\ result' = NoResult
    /\ pre' = NoPre
    /\ swept' = FALSE
    /\ UNCHANGED <<mail, writes, now, ticks, workers, topologies, whist, thist, next_refresh,
                   frames, wtodo, dead_workers, ttodo, refresh_log>>

\* ------------------------------------------------------------------------
\* The mailbox: sendMessageToWorker and getMessages

\* messages a behaviour inserts
MaxMsgs == 2

\* what the callers in this class send: stopTopology a stop_topology valid for
\* 30 s, shutDownWorker a shutdown valid for 60 s
MessageKinds ==
    {[cmd |-> "stop_topology", valid_msec |-> 30 * 1000],
     [cmd |-> "shutdown", valid_msec |-> 60 * 1000]}

\* INSERT INTO qtopology_message (worker, cmd, content, created, valid_until)
InsertMessage(m, id, worker, cmd, content, t, valid_msec) ==
    m \cup {[id |-> id, worker |-> worker, cmd |-> cmd, content |-> content,
             created |-> t, valid_until |-> t + valid_msec]}

\* variant of DeleteMessageRow whose filter matches no row
DeleteMessageRow_no_match(m, id) == m

\* DELETE FROM qtopology_message WHERE id = ?
DeleteMessageRow(m, id) == {x \in m : x.id # id}

sendMessageToWorker ==
    \E worker \in WorkerNames, kind \in MessageKinds :
        /\ pc = "idle"
        /\ sent < MaxMsgs
        /\ messages' = InsertMessage(messages, sent + 1, worker, kind.cmd, "{}",
                                     now, kind.valid_msec)
        /\ sent' = sent + 1
        /\ UNCHANGED <<mtodo, fetched, writes, now, ticks, workers, topologies, whist, thist,
                       next_refresh, pc, op, frames, wtodo, dead_workers, ttodo,
                       result, pre, swept, refresh_log>>

RECURSIVE InIdOrder(_)
\* the rows of a set as a sequence, lowest id first
InIdOrder(rows) ==
    IF rows = {} THEN << >>
    ELSE LET first == CHOOSE x \in rows : \A y \in rows : x.id <= y.id
         IN << first >> \o InIdOrder(rows \ {first})

\* CALL qtopology_sp_messages_for_worker(name): the rows addressed to the
\* worker that have not expired, in the order of their creation
qtopology_sp_messages_for_worker(m, name, t) ==
    InIdOrder({x \in m : x.worker = name /\ x.valid_until >= t})

\* res.push({ cmd: rec.cmd, content: JSON.parse(rec.content), created: rec.created })
StorageResultMessage(rec) ==
    [cmd |-> rec.cmd, content |-> rec.content, created |-> rec.created]

Range(f) == {f[i] : i \in DOMAIN f}

getMessages ==
    \E name \in CallNames \ {UnknownWorker} :
        /\ pc = "idle"
        /\ op' = [name |-> "getMessages", arg |-> name]
        /\ pre' = Snapshot
        /\ result' = NoResult
        /\ pc' = "gm_fetch"
        /\ swept' = FALSE
        /\ UNCHANGED <<mail, writes, now, ticks, workers, topologies, whist, thist, next_refresh,
                       frames, wtodo, dead_workers, ttodo, refresh_log>>

\* callback of the fetch: res and ids_to_delete are built and async.each
\* issues one DELETE per id; with no id its callback runs at once
getMessagesFetch ==
    /\ pc = "gm_fetch"
    /\ LET data == qtopology_sp_messages_for_worker(messages, op.arg, now)
           ids_to_delete == [i \in DOMAIN data |-> data[i].id]
       IN /\ result' = [err |-> "none",
                        messages |-> [i \in DOMAIN data |-> StorageResultMessage(data[i])],
                        rows |-> data,
                        ids |-> ids_to_delete,
                        failed |-> {}]
          /\ mtodo' = Range(ids_to_delete)
          /\ pc' = IF ids_to_delete = << >> THEN "done" ELSE "gm_delete"
    /\ UNCHANGED <<messages, sent, fetched, writes, now, ticks, workers, topologies, whist, thist,
                   next_refresh, op, frames, wtodo, dead_workers, ttodo, pre, swept,
                   refresh_log>>

\* one DELETE of the fan-out succeeds
deleteMessage ==
    /\ pc = "gm_delete"
    /\ \E id \in mtodo :
        /\ messages' = DeleteMessageRow(messages, id)
        /\ mtodo' = mtodo \ {id}
        /\ pc' = IF mtodo' = {} THEN "done" ELSE pc
    /\ UNCHANGED <<sent, fetched, writes, now, ticks, workers, topologies, whist, thist,
                   next_refresh, op, frames, wtodo, dead_workers, ttodo, result, pre,
                   swept, refresh_log>>

\* variant of deleteMessageFails in which the row is gone although the query
\* reported an error
deleteMessageFails_removed ==
    /\ pc = "gm_delete"
    /\ \E id \in mtodo :
        /\ messages' = DeleteMessageRow(messages, id)
        /\ mtodo' = mtodo \ {id}
        /\ pc' = IF mtodo' = {} THEN "done" ELSE pc
        /\ result' = [eachCallback(result, id, ErrQuery) EXCEPT !.failed = @ \cup {id}]
    /\ UNCHANGED <<sent, fetched, writes, now, ticks, workers, topologies, whist, thist,
                   next_refresh, op, frames, wtodo, dead_workers, ttodo, pre,
                   swept, refresh_log>>

\* one DELETE of the fan-out fails: the first failure hands (err, res) to the
\* caller, the other deletes stay in flight
deleteMessageFails ==
    /\ pc = "gm_delete"
    /\ \E id \in mtodo :
        /\ mtodo' = mtodo \ {id}
        /\ pc' = IF mtodo' = {} THEN "done" ELSE pc
        /\ result' = [eachCallback(result, id, ErrQuery) EXCEPT !.failed = @ \cup {id}]
    /\ UNCHANGED <<messages, sent, fetched, writes, now, ticks, workers, topologies, whist, thist,
                   next_refresh, op, frames, wtodo, dead_workers, ttodo, pre,
                   swept, refresh_log>>

\* the outcome of a completed getMessages for the rows it returned: the row,
\* whether its DELETE succeeded, the error handed to the caller
Outcome(res) ==
    [id \in Range(res.ids) |->
        [msg |-> CHOOSE r \in Range(res.rows) : r.id = id,
         deleted |-> id \notin res.failed,
         err |-> res.err]]

\* getMessages is over: the caller has its callback and no DELETE is in flight
ReturnMessages ==
    /\ pc = "done"
    /\ op.name = "getMessages"
    /\ fetched' = [id \in DOMAIN fetched \cup DOMAIN Outcome(result) |->
                     IF id \in DOMAIN Outcome(result)
                     THEN Outcome(result)[id] ELSE fetched[id]]
    /\ pc' = "idle"
    /\ op' = NoOp
    /\ result' = NoResult
    /\ pre' = NoPre
    /\ UNCHANGED <<messages, sent, mtodo, writes, now, ticks, workers, topologies, whist, thist,
                   next_refresh, frames, wtodo, dead_workers, ttodo, swept, refresh_log>>

RECURSIVE DeleteMessageRows(_, _)
\* async.each(ids_to_delete, ...) with every DELETE succeeding
DeleteMessageRows(m, ids) ==
    IF ids = << >> THEN m
    ELSE DeleteMessageRows(DeleteMessageRow(m, Head(ids)), Tail(ids))

\* a second getMessages call while the deletes of the first are in flight:
\* its fetch reads the rows the first call has not deleted yet, its own
\* deletes all succeed and its caller has its callback before the next DELETE
\* of the first call runs
getMessagesConcurrent ==
    /\ pc = "gm_delete"
    /\ mtodo # {}
    /\ \E name \in CallNames \ {UnknownWorker} :
        LET data == qtopology_sp_messages_for_worker(messages, name, now)
            ids_to_delete == [i \in DOMAIN data |-> data[i].id]
            res == [err |-> "none",
                    messages |-> [i \in DOMAIN data |-> StorageResultMessage(data[i])],
                    rows |-> data,
                    ids |-> ids_to_delete,
                    failed |-> {}]
        IN /\ ids_to_delete # << >>
           /\ messages' = DeleteMessageRows(messages, ids_to_delete)
           /\ fetched' = [id \in DOMAIN fetched \cup DOMAIN Outcome(res) |->
                            IF id \in DOMAIN Outcome(res)
                            THEN Outcome(res)[id] ELSE fetched[id]]
    /\ UNCHANGED <<sent, mtodo, writes, now, ticks, workers, topologies, whist, thist,
                   next_refresh, pc, op, frames, wtodo, dead_workers, ttodo, result,
                   pre, swept, refresh_log>>

\* ------------------------------------------------------------------------
\* The writes, statement by statement.  assignTopology, setTopologyStatus,
\* setWorkerStatus, setWorkerLStatus, disableTopology and enableTopology each
\* send one query of two statements, "UPDATE ...;call qtopology_sp_add_*_history(?);",
\* over a connection of the pool (multipleStatements: true).  The query opens
\* no transaction: the server commits the UPDATE, then runs the CALL, and a
\* query on another connection of the pool can run in between.

\* calls of the writes that a behaviour follows statement by statement, of
\* stopTopology and of announceLeaderCandidacy
MaxWrites == 2

\* names and uuids the writes are called with
CallUuids == {"t1", UnknownTopology}

WorkerWrites == {"setWorkerStatus", "setWorkerLStatus"}
TopologyWrites == {"assignTopology", "setTopologyStatus", "enableTopology", "disableTopology"}
WriteNames == WorkerWrites \cup TopologyWrites

\* UPDATE qtopology_topology SET enabled = ? WHERE uuid = ?
UpdateTopologyEnabled(tp, uuid, enabled) ==
    IF uuid \in DOMAIN tp THEN [tp EXCEPT ![uuid].enabled = enabled] ELSE tp

\* the write whose query operation o sends: stopTopology sends the one of
\* disableTopology
Write(o) ==
    IF o.name = "stopTopology"
    THEN [name |-> "disableTopology", arg |-> o.arg, val |-> [enabled |-> FALSE]]
    ELSE o

\* variant of createUpdate whose UPDATE of assignTopology leaves the status
createUpdate_assign_keeps_status(w, tp, o, t) ==
    CASE o.name = "setWorkerStatus" ->
            [workers |-> UpdateWorkerStatus(w, o.arg, o.val.status, t), topologies |-> tp]
      [] o.name = "setWorkerLStatus" ->
            [workers |-> UpdateWorkerLStatus(w, o.arg, o.val.lstatus, t), topologies |-> tp]
      [] o.name = "assignTopology" ->
            [workers |-> w,
             topologies |-> IF o.arg \in DOMAIN tp
                            THEN [tp EXCEPT ![o.arg].worker = o.val.worker,
                                            ![o.arg].last_ping = t]
                            ELSE tp]
      [] o.name = "setTopologyStatus" ->
            [workers |-> w,
             topologies |-> UpdateTopologyStatus(tp, o.arg, o.val.status, o.val.error, t)]
      [] o.name \in {"enableTopology", "disableTopology"} ->
            [workers |-> w, topologies |-> UpdateTopologyEnabled(tp, o.arg, o.val.enabled)]

\* the tables after the UPDATE that qh.createUpdate builds for write o, whose
\* new Date() was t
createUpdate(w, tp, o, t) ==
    CASE o.name = "setWorkerStatus" ->
            [workers |-> UpdateWorkerStatus(w, o.arg, o.val.status, t), topologies |-> tp]
      [] o.name = "setWorkerLStatus" ->
            [workers |-> UpdateWorkerLStatus(w, o.arg, o.val.lstatus, t), topologies |-> tp]
      [] o.name = "assignTopology" ->
            [workers |-> w, topologies |-> UpdateTopologyAssign(tp, o.arg, o.val.worker, t)]
      [] o.name = "setTopologyStatus" ->
            [workers |-> w,
             topologies |-> UpdateTopologyStatus(tp, o.arg, o.val.status, o.val.error, t)]
      [] o.name \in {"enableTopology", "disableTopology"} ->
            [workers |-> w, topologies |-> UpdateTopologyEnabled(tp, o.arg, o.val.enabled)]

\* a write is called: the sql is built and handed to the pool
CallWrite(o) ==
    /\ pc = "idle"
    /\ writes < MaxWrites
    /\ writes' = writes + 1
    /\ op' = o
    /\ pre' = Snapshot
    /\ result' = NoResult
    /\ pc' = "update"
    /\ swept' = FALSE
    /\ UNCHANGED <<mail, now, ticks, workers, topologies, whist, thist, next_refresh,
                   frames, wtodo, dead_workers, ttodo, refresh_log>>

setWorkerStatusCall ==
    \E name \in CallNames, status \in WorkerStatuses :
        CallWrite([name |-> "setWorkerStatus", arg |-> name, val |-> [status |-> status]])

setWorkerLStatusCall ==
    \E name \in CallNames, lstatus \in WorkerLStatuses :
        CallWrite([name |-> "setWorkerLStatus", arg |-> name, val |-> [lstatus |-> lstatus]])

assignTopologyCall ==
    \E uuid \in CallUuids, name \in CallNames :
        CallWrite([name |-> "assignTopology", arg |-> uuid, val |-> [worker |-> name]])

setTopologyStatusCall ==
    \E uuid \in CallUuids, status \in TopologyStatuses, error \in {NoError, "e1"} :
        /\ error # NoError => status = TopologyStatus.error
        /\ CallWrite([name |-> "setTopologyStatus", arg |-> uuid,
                      val |-> [status |-> status, error |-> error]])

disableTopology ==
    \E uuid \in CallUuids :
        CallWrite([name |-> "disableTopology", arg |-> uuid, val |-> [enabled |-> FALSE]])

enableTopology ==
    \E uuid \in CallUuids :
        CallWrite([name |-> "enableTopology", arg |-> uuid, val |-> [enabled |-> TRUE]])

\* the server runs the UPDATE and commits it
updateStatement ==
    /\ pc = "update"
    /\ LET after == createUpdate(workers, topologies, Write(op), pre.now)
       IN /\ workers' = after.workers
          /\ topologies' = after.topologies
    /\ pc' = "history"
    /\ UNCHANGED <<mail, writes, now, ticks, whist, thist, next_refresh, op,
                   frames, wtodo, dead_workers, ttodo, result, pre, swept, refresh_log>>

\* the query fails before the UPDATE: callback(err)
updateStatementFails ==
    /\ pc = "update"
    /\ result' = [result EXCEPT !.err = ErrQuery]
    /\ pc' = "done"
    /\ UNCHANGED <<mail, writes, now, ticks, workers, topologies, whist, thist, next_refresh, op,
                   frames, wtodo, dead_workers, ttodo, pre, swept, refresh_log>>

\* where the callback of the query continues
AfterWrite(o) == IF o.name = "stopTopology" THEN "stop_send" ELSE "done"

\* the server runs the CALL of the history procedure
historyStatement ==
    /\ pc = "history"
    /\ IF Write(op).name \in WorkerWrites
       THEN /\ whist' = AddWorkerHistory(whist, workers, op.arg)
            /\ thist' = thist
       ELSE /\ thist' = AddTopologyHistory(thist, topologies, op.arg)
            /\ whist' = whist
    /\ pc' = AfterWrite(op)
    /\ UNCHANGED <<mail, writes, now, ticks, workers, topologies, next_refresh, op,
                   frames, wtodo, dead_workers, ttodo, result, pre, swept, refresh_log>>

\* the CALL fails after the UPDATE was committed: callback(err)
historyStatementFails ==
    /\ pc = "history"
    /\ result' = [result EXCEPT !.err = ErrQuery]
    /\ pc' = "done"
    /\ UNCHANGED <<mail, writes, now, ticks, workers, topologies, whist, thist, next_refresh, op,
                   frames, wtodo, dead_workers, ttodo, pre, swept, refresh_log>>

\* ------------------------------------------------------------------------
\* deleteTopology and the history readers

\* variant of deleteTopologyStatement in which the history rows of the
\* topology go with its row
deleteTopologyStatement_cascade(tp, th, uuid) ==
    [topologies |-> [u \in DOMAIN tp \ {uuid} |-> tp[u]],
     thist |-> [u \in DOMAIN th |-> IF u = uuid THEN << >> ELSE th[u]]]

\* DELETE FROM qtopology_topology WHERE uuid = ?: the two topology tables
\* after the statement
deleteTopologyStatement(tp, th, uuid) ==
    [topologies |-> [u \in DOMAIN tp \ {uuid} |-> tp[u]], thist |-> th]

deleteTopology ==
    \E uuid \in CallUuids :
        /\ pc = "idle"
        /\ op' = [name |-> "deleteTopology", arg |-> uuid]
        /\ pre' = Snapshot
        /\ result' = NoResult
        /\ pc' = "dt_delete"
        /\ swept' = FALSE
        /\ UNCHANGED <<mail, writes, now, ticks, workers, topologies, whist, thist,
                       next_refresh, frames, wtodo, dead_workers, ttodo, refresh_log>>

\* the DELETE of deleteTopology completes
deleteTopologyQuery ==
    /\ pc = "dt_delete"
    /\ LET after == deleteTopologyStatement(topologies, thist, op.arg)
       IN /\ topologies' = after.topologies
          /\ thist' = after.thist
    /\ pc' = "done"
    /\ UNCHANGED <<mail, writes, now, ticks, workers, whist, next_refresh, op,
                   frames, wtodo, dead_workers, ttodo, result, pre, swept, refresh_log>>

getTopologyHistory ==
    \E uuid \in CallUuids :
        /\ pc = "idle"
        /\ op' = [name |-> "getTopologyHistory", arg |-> uuid]
        /\ pre' = Snapshot
        /\ result' = NoResult
        /\ pc' = "history_select"
        /\ swept' = FALSE
        /\ UNCHANGED <<mail, writes, now, ticks, workers, topologies, whist, thist,
                       next_refresh, frames, wtodo, dead_workers, ttodo, refresh_log>>

getWorkerHistory ==
    \E name \in CallNames :
        /\ pc = "idle"
        /\ op' = [name |-> "getWorkerHistory", arg |-> name]
        /\ pre' = Snapshot
        /\ result' = NoResult
        /\ pc' = "history_select"
        /\ swept' = FALSE
        /\ UNCHANGED <<mail, writes, now, ticks, workers, topologies, whist, thist,
                       next_refresh, frames, wtodo, dead_workers, ttodo, refresh_log>>

RECURSIVE Reverse(_)
Reverse(s) == IF s = << >> THEN << >> ELSE Append(Reverse(Tail(s)), Head(s))

\* SELECT * FROM <history table> WHERE <key> = ? ORDER BY ts desc LIMIT 100
createSelect(h, key) == IF key \in DOMAIN h THEN Reverse(h[key]) ELSE << >>

\* the SELECT of a history reader completes: callback(null, data)
historySelect ==
    /\ pc = "history_select"
    /\ result' = [err |-> "none",
                  data |-> IF op.name = "getWorkerHistory"
                           THEN createSelect(whist, op.arg)
                           ELSE createSelect(thist, op.arg)]
    /\ pc' = "done"
    /\ UNCHANGED <<mail, writes, now, ticks, workers, topologies, whist, thist,
                   next_refresh, op, frames, wtodo, dead_workers, ttodo, pre, swept,
                   refresh_log>>

\* ------------------------------------------------------------------------
\* stopTopology: getTopologyInfo, then disableTopology, then
\* sendMessageToWorker

stopTopology ==
    \E uuid \in CallUuids :
        /\ pc = "idle"
        /\ writes < MaxWrites
        /\ sent < MaxMsgs
        /\ writes' = writes + 1
        /\ op' = [name |-> "stopTopology", arg |-> uuid, val |-> [worker |-> NoWorker]]
        /\ pre' = Snapshot
        /\ result' = NoResult
        /\ pc' = "stop_info"
        /\ swept' = FALSE
        /\ UNCHANGED <<mail, now, ticks, workers, topologies, whist, thist, next_refresh,
                       frames, wtodo, dead_workers, ttodo, refresh_log>>

\* variant of stopTopologyInfo that sends the message without disabling
stopTopologyInfo_send_first ==
    /\ pc = "stop_info"
    /\ IF op.arg \notin DOMAIN topologies
       THEN /\ result' = [result EXCEPT !.err = ErrNoTopology]
            /\ pc' = "done"
            /\ op' = op
       ELSE IF topologies[op.arg].worker = NoWorker
       THEN /\ result' = result
            /\ pc' = "done"
            /\ op' = op
       ELSE /\ result' = result
            /\ pc' = "stop_send"
            /\ op' = [op EXCEPT !.val = [worker |-> topologies[op.arg].worker]]
    /\ UNCHANGED <<mail, writes, now, ticks, workers, topologies, whist, thist,
                   next_refresh, frames, wtodo, dead_workers, ttodo, pre, swept,
                   refresh_log>>

\* callback of getTopologyInfo in stopTopology:
\*   if (err) return callback(err); if (!data.worker) return callback();
stopTopologyInfo ==
    /\ pc = "stop_info"
    /\ IF op.arg \notin DOMAIN topologies
       THEN /\ result' = [result EXCEPT !.err = ErrNoTopology]
            /\ pc' = "done"
            /\ op' = op
       ELSE IF topologies[op.arg].worker = NoWorker
       THEN /\ result' = result
            /\ pc' = "done"
            /\ op' = op
       ELSE /\ result' = result
            /\ pc' = "update"
            /\ op' = [op EXCEPT !.val = [worker |-> topologies[op.arg].worker]]
    /\ UNCHANGED <<mail, writes, now, ticks, workers, topologies, whist, thist,
                   next_refresh, frames, wtodo, dead_workers, ttodo, pre, swept,
                   refresh_log>>

\* callback of disableTopology in stopTopology: sendMessageToWorker(data.worker,
\* stop_topology, { uuid }, 30 * 1000, callback), the INSERT completes
stopTopologySend ==
    /\ pc = "stop_send"
    /\ messages' = InsertMessage(messages, sent + 1, op.val.worker, "stop_topology",
                                 op.arg, now, 30 * 1000)
    /\ sent' = sent + 1
    /\ pc' = "done"
    /\ UNCHANGED <<mtodo, fetched, writes, now, ticks, workers, topologies, whist, thist,
                   next_refresh, op, frames, wtodo, dead_workers, ttodo, result, pre,
                   swept, refresh_log>>

\* ------------------------------------------------------------------------
\* announceLeaderCandidacy: disableDefunctWorkers, then the candidacy routine

\* self.disableDefunctWorkers(...) is called directly: refreshStatuses, its
\* throttle and next_refresh are not involved
announceLeaderCandidacy ==
    \E name \in CallNames :
        /\ pc = "idle"
        /\ writes < MaxWrites
        /\ writes' = writes + 1
        /\ op' = [name |-> "announceLeaderCandidacy", arg |-> name]
        /\ pre' = Snapshot
        /\ result' = NoResult
        /\ pc' = "ddw"
        /\ swept' = FALSE
        /\ UNCHANGED <<mail, now, ticks, workers, topologies, whist, thist,
                       next_refresh, frames, wtodo, dead_workers, ttodo, refresh_log>>

\* CALL qtopology_sp_announce_leader_candidacy(name): the worker tables the
\* routine can leave.  Its policy is the routine's own: the worker stays as it
\* is, becomes candidate, or becomes leader.
qtopology_sp_announce_leader_candidacy(w, name) ==
    IF name \in DOMAIN w
    THEN {w} \cup {[w EXCEPT ![name].lstatus = l] :
                      l \in {WorkerLStatus.candidate, WorkerLStatus.leader}}
    ELSE {w}

\* callback of disableDefunctWorkers in announceLeaderCandidacy: the routine
\* is called and the caller's callback receives its outcome
announceCandidacy ==
    /\ pc = "announce"
    /\ workers' \in qtopology_sp_announce_leader_candidacy(workers, op.arg)
    /\ result' = [err |-> "none", announced |-> op.arg]
    /\ pc' = "done"
    /\ UNCHANGED <<mail, writes, now, ticks, topologies, whist, thist, next_refresh, op,
                   frames, wtodo, dead_workers, ttodo, pre, swept, refresh_log>>

\* ------------------------------------------------------------------------
\* Specifications

\* refreshStatuses after the call: the two sweeps, the operation's query, the
\* callback
Refresh ==
    \/ disableDefunctWorkers
    \/ disableDefunctWorkerWrite
    \/ unassignWaitingTopologies
    \/ unassignTopologiesEach
    \/ unassignTopologyWrite
    \/ readAfterRefresh
    \/ Return

Environment ==
    \/ Tick
    \/ setWorkerStatus
    \/ setWorkerLStatus
    \/ assignTopology
    \/ setTopologyStatus

\* the status readers
NextStatus ==
    \/ getWorkerStatus
    \/ getTopologyStatus
    \/ getTopologiesForWorker
    \/ Refresh
    \/ Environment

\* getWorkerStatus with the clock around the refresh period
NextThrottle ==
    \/ getWorkerStatus
    \/ Refresh
    \/ TickThrottle
    \/ setWorkerStatus
    \/ setWorkerLStatus
    \/ assignTopology
    \/ setTopologyStatus

\* getLeadershipStatus
NextLeadership ==
    \/ getLeadershipStatus
    \/ Refresh
    \/ Environment

\* deleteWorker
NextDelete ==
    \/ deleteWorker
    \/ deleteWorkerQuery
    \/ Refresh
    \/ Environment

\* clearTopologyError
NextClear ==
    \/ clearTopologyError
    \/ getTopologyInfo
    \/ clearTopologyErrorWrite
    \/ Return
    \/ Environment

\* every operation
Next ==
    \/ getWorkerStatus
    \/ getTopologyStatus
    \/ getTopologiesForWorker
    \/ getLeadershipStatus
    \/ deleteWorker
    \/ deleteWorkerQuery
    \/ clearTopologyError
    \/ getTopologyInfo
    \/ clearTopologyErrorWrite
    \/ Refresh
    \/ Environment

Spec == Init /\ [][Next]_vars

SpecStatus == Init /\ [][NextStatus]_vars

SpecThrottle == Init /\ [][NextThrottle]_vars

SpecLeadership == Init /\ [][NextLeadership]_vars

SpecDelete == Init /\ [][NextDelete]_vars

SpecClear == Init /\ [][NextClear]_vars

\* the mailbox
NextMailbox ==
    \/ sendMessageToWorker
    \/ getMessages
    \/ getMessagesFetch
    \/ deleteMessage
    \/ deleteMessageFails
    \/ ReturnMessages
    \/ Tick

SpecMailbox == Init /\ [][NextMailbox]_vars

\* the writes, statement by statement
NextWrites ==
    \/ setWorkerStatusCall
    \/ setWorkerLStatusCall
    \/ assignTopologyCall
    \/ setTopologyStatusCall
    \/ disableTopology
    \/ enableTopology
    \/ updateStatement
    \/ updateStatementFails
    \/ historyStatement
    \/ historyStatementFails
    \/ Return
    \/ TickStale

SpecWrites == Init /\ [][NextWrites]_vars

\* the operations that delete rows, the history readers, and the writers
NextHistory ==
    \/ deleteTopology
    \/ deleteTopologyQuery
    \/ getTopologyHistory
    \/ getWorkerHistory
    \/ historySelect
    \/ deleteWorker
    \/ deleteWorkerQuery
    \/ Refresh
    \/ TickStale
    \/ setWorkerStatus
    \/ setWorkerLStatus
    \/ assignTopology
    \/ setTopologyStatus

SpecHistory == Init /\ [][NextHistory]_vars

\* stopTopology, after callers assigned and reported on the topology
NextStop ==
    \/ stopTopology
    \/ stopTopologyInfo
    \/ updateStatement
    \/ updateStatementFails
    \/ historyStatement
    \/ historyStatementFails
    \/ stopTopologySend
    \/ Return
    \/ Tick
    \/ assignTopology
    \/ setTopologyStatus

SpecStop == Init /\ [][NextStop]_vars

\* the first getWorkerStatus of the instance, before the clock advances: it
\* arms the throttle
getWorkerStatusFirst == next_refresh = 0 /\ ticks = 0 /\ getWorkerStatus

\* announceLeaderCandidacy before and after the instance's first refresh, with
\* queries of the worker sweep that fail.  Callers report worker status and
\* assign the topology; no topology is running, so the topology sweep of the
\* first refresh has nothing to write.
NextAnnounce ==
    \/ announceLeaderCandidacy
    \/ announceCandidacy
    \/ getWorkerStatusFirst
    \/ disableDefunctWorkers
    \/ disableDefunctWorkerWrite
    \/ disableDefunctWorkersFails
    \/ disableDefunctWorkerWriteFails
    \/ unassignWaitingTopologies
    \/ unassignTopologiesEach
    \/ readAfterRefresh
    \/ Return
    \/ TickStale
    \/ setWorkerStatus
    \/ assignTopology

SpecAnnounce == Init /\ [][NextAnnounce]_vars

\* getWorkerStatus with queries of the worker sweep that fail
NextSweep ==
    \/ getWorkerStatus
    \/ Refresh
    \/ disableDefunctWorkersFails
    \/ disableDefunctWorkerWriteFails
    \/ TickStale
    \/ setWorkerStatus
    \/ setWorkerLStatus
    \/ assignTopology
    \/ setTopologyStatus

SpecSweep == Init /\ [][NextSweep]_vars

\* ------------------------------------------------------------------------
\* getWorkerStatus on a store to which no message has been sent
getWorkerStatusNoMail == sent = 0 /\ getWorkerStatus

\* sendMessageToWorker on a store that this instance has not refreshed
sendMessageBeforeRefresh == next_refresh = 0 /\ sendMessageToWorker

\* the fan-outs of async.each: the two sweeps of a refresh and the deletes of
\* getMessages, each with failing queries
NextFanout ==
    \/ getWorkerStatusNoMail
    \/ disableDefunctWorkers
    \/ disableDefunctWorkerWrite
    \/ disableDefunctWorkerWriteFails
    \/ unassignWaitingTopologies
    \/ unassignTopologiesEach
    \/ unassignTopologyWrite
    \/ unassignTopologyWriteFails
    \/ readAfterRefresh
    \/ sendMessageBeforeRefresh
    \/ getMessages
    \/ getMessagesFetch
    \/ deleteMessage
    \/ deleteMessageFails
    \/ Return
    \/ TickStale
    \/ assignTopology

\* a store with a second topology, registered and assigned to w1 at time 0
InitFanout ==
    /\ now = 0
    /\ ticks = 0
    /\ workers = [n \in WorkerNames |->
                    [status |-> WorkerStatus.alive, lstatus |-> WorkerLStatus.normal,
                     last_ping |-> 0]]
    /\ topologies = [u \in TopologyIds \cup {SecondTopology} |->
                    [status |-> IF u = SecondTopology THEN TopologyStatus.waiting
                                ELSE TopologyStatus.unassigned,
                     worker |-> IF u = SecondTopology THEN "w1" ELSE NoWorker,
                     last_ping |-> 0, error |-> NoError, enabled |-> TRUE,
                     weight |-> 1, worker_affinity |-> "", config |-> "{}"]]
    /\ whist = [n \in WorkerNames |-> << >>]
    /\ thist = [u \in TopologyIds \cup {SecondTopology} |-> << >>]
    /\ next_refresh = 0
    /\ pc = "idle"
    /\ op = NoOp
    /\ frames = << >>
    /\ wtodo = Empty
    /\ dead_workers = {}
    /\ ttodo = Empty
    /\ result = NoResult
    /\ pre = NoPre
    /\ swept = FALSE
    /\ refresh_log = {}
    /\ messages = {}
    /\ sent = 0
    /\ mtodo = {}
    /\ fetched = Empty
    /\ writes = 0

SpecFanout == InitFanout /\ [][NextFanout]_vars

\* the sweeps of two instances at once
NextConcurrentSweeps ==
    \/ getWorkerStatus
    \/ Refresh
    \/ otherInstanceRefresh
    \/ TickStale
    \/ setWorkerStatus
    \/ setWorkerLStatus
    \/ assignTopology
    \/ setTopologyStatus

SpecConcurrentSweeps == Init /\ [][NextConcurrentSweeps]_vars

\* getWorkerStatus on a store whose workers were last heard of at time 0:
\* every write of a worker or of a caller on its behalf is made before the
\* clock first advances
setWorkerStatusFirst == ticks = 0 /\ setWorkerStatus

NextLastHeartbeat ==
    \/ getWorkerStatus
    \/ Refresh
    \/ Tick
    \/ setWorkerStatusFirst
    \/ setWorkerLStatus
    \/ assignTopology

SpecLastHeartbeat == Init /\ [][NextLastHeartbeat]_vars

\* the sweeps with the workers' heartbeats in between
NextHeartbeatRace ==
    \/ getWorkerStatus
    \/ Refresh
    \/ setWorkerStatusConcurrent
    \/ TickStale
    \/ setWorkerStatus
    \/ setWorkerLStatus
    \/ assignTopology

SpecHeartbeatRace == Init /\ [][NextHeartbeatRace]_vars

\* the sweeps with acknowledgements and assignments in between
NextAssignmentRace ==
    \/ getTopologyStatus
    \/ Refresh
    \/ setTopologyStatusConcurrent
    \/ assignTopologyConcurrent
    \/ TickStale
    \/ setWorkerStatus
    \/ assignTopology
    \/ setTopologyStatus

SpecAssignmentRace == Init /\ [][NextAssignmentRace]_vars

\* clearTopologyError with acknowledgements and assignments in between
NextClearRace ==
    \/ clearTopologyError
    \/ getTopologyInfo
    \/ clearTopologyErrorWrite
    \/ Return
    \/ setTopologyStatusConcurrent
    \/ assignTopologyConcurrent
    \/ Environment

SpecClearRace == Init /\ [][NextClearRace]_vars

\* deleteWorker with the workers' heartbeats in between, on a store whose
\* topology stays unassigned
NextDeleteRace ==
    \/ deleteWorker
    \/ deleteWorkerQuery
    \/ disableDefunctWorkers
    \/ disableDefunctWorkerWrite
    \/ unassignWaitingTopologies
    \/ unassignTopologiesEach
    \/ readAfterRefresh
    \/ Return
    \/ setWorkerStatusConcurrent
    \/ TickStale
    \/ setWorkerStatus

SpecDeleteRace == Init /\ [][NextDeleteRace]_vars

\* deleteWorker on a store in which t1 has been assigned to w1 and
\* acknowledged at time 0
InitAssigned ==
    /\ now = 0
    /\ ticks = 0
    /\ workers = [n \in WorkerNames |->
                    [status |-> WorkerStatus.alive, lstatus |-> WorkerLStatus.normal,
                     last_ping |-> 0]]
    /\ topologies = [u \in TopologyIds |->
                    [status |-> TopologyStatus.running, worker |-> "w1",
                     last_ping |-> 0, error |-> NoError, enabled |-> TRUE,
                     weight |-> 1, worker_affinity |-> "", config |-> "{}"]]
    /\ whist = [n \in WorkerNames |-> << >>]
    /\ thist = [u \in TopologyIds |-> << >>]
    /\ next_refresh = 0
    /\ pc = "idle"
    /\ op = NoOp
    /\ frames = << >>
    /\ wtodo = Empty
    /\ dead_workers = {}
    /\ ttodo = Empty
    /\ result = NoResult
    /\ pre = NoPre
    /\ swept = FALSE
    /\ refresh_log = {}
    /\ messages = {}
    /\ sent = 0
    /\ mtodo = {}
    /\ fetched = Empty
    /\ writes = 0

NextOrphan ==
    \/ deleteWorker
    \/ deleteWorkerQuery
    \/ Refresh
    \/ TickStale
    \/ setWorkerStatus

SpecOrphan == InitAssigned /\ [][NextOrphan]_vars

\* two getMessages calls that overlap, no DELETE failing
NextOverlap ==
    \/ sendMessageToWorker
    \/ getMessages
    \/ getMessagesFetch
    \/ getMessagesConcurrent
    \/ deleteMessage
    \/ ReturnMessages
    \/ Tick

SpecOverlap == Init /\ [][NextOverlap]_vars

\* Properties.  In a state with pc = "read" the refresh of the operation in
\* flight has just called back without error; with pc = "done" the
\* operation has called back.  pre is the store and the clock at the call.

RefreshCompleted == swept /\ pc = "read"

StaleAlive(w, n, t) ==
    w[n].status = WorkerStatus.alive /\ w[n].last_ping < t - 30000

\* C1: every worker that is alive with a last_ping more than 30 s old when the
\* sweep runs is dead when the refresh has completed; an alive worker whose
\* last_ping is at most 30 s old is still alive.
C1_StaleAliveWorkersDie ==
    RefreshCompleted =>
        \A n \in DOMAIN pre.workers :
            /\ StaleAlive(pre.workers, n, pre.now) => workers[n].status = WorkerStatus.dead
            /\ (pre.workers[n].status = WorkerStatus.alive
                    /\ pre.workers[n].last_ping >= pre.now - 30000)
                  => workers[n].status = WorkerStatus.alive

\* one sweep demotes a worker pinged 30001 ms ago and keeps one pinged
\* exactly 30000 ms ago
C1_Witness ==
    /\ RefreshCompleted
    /\ \E n, m \in DOMAIN pre.workers :
        /\ StaleAlive(pre.workers, n, pre.now)
        /\ workers[n].status = WorkerStatus.dead
        /\ pre.workers[m].status = WorkerStatus.alive
        /\ pre.workers[m].last_ping = pre.now - 30000
        /\ workers[m].status = WorkerStatus.alive

\* C2: every worker that is candidate or leader and not alive when the sweep
\* runs, whatever its last_ping, has lstatus normal when the refresh has
\* completed; so has one that this sweep demotes from alive to dead.
C2_DeadClaimsReset ==
    RefreshCompleted =>
        \A n \in DOMAIN pre.workers :
            (/\ pre.workers[n].lstatus # WorkerLStatus.normal
             /\ \/ pre.workers[n].status # WorkerStatus.alive
                \/ StaleAlive(pre.workers, n, pre.now))
                => workers[n].lstatus = WorkerLStatus.normal

\* a worker that is not alive, holds a claim and was pinged at the very time
\* of the sweep is reset
C2_Witness ==
    /\ RefreshCompleted
    /\ \E n \in DOMAIN pre.workers :
        /\ pre.workers[n].lstatus # WorkerLStatus.normal
        /\ pre.workers[n].status # WorkerStatus.alive
        /\ pre.workers[n].last_ping = pre.now
        /\ workers[n].lstatus = WorkerLStatus.normal

\* the other case of C2: an alive leader or candidate demoted by this sweep
C2_WitnessDemoted ==
    /\ RefreshCompleted
    /\ \E n \in DOMAIN pre.workers :
        /\ pre.workers[n].lstatus # WorkerLStatus.normal
        /\ StaleAlive(pre.workers, n, pre.now)
        /\ workers[n].status = WorkerStatus.dead
        /\ workers[n].lstatus = WorkerLStatus.normal

\* C3: every topology that is waiting with a last_ping more than 30 s old when
\* the sweep runs is unassigned when the refresh has completed; a waiting
\* topology whose last_ping is at most 30 s old stays waiting, dead worker or not.
C3_StaleWaitingUnassigned ==
    RefreshCompleted =>
        \A u \in DOMAIN pre.topologies :
            /\ (pre.topologies[u].status = TopologyStatus.waiting
                    /\ pre.topologies[u].last_ping < pre.now - 30000)
                  => topologies[u].status = TopologyStatus.unassigned
            /\ (pre.topologies[u].status = TopologyStatus.waiting
                    /\ pre.topologies[u].last_ping >= pre.now - 30000)
                  => topologies[u] = pre.topologies[u]

C3_Witness ==
    /\ RefreshCompleted
    /\ \E u \in DOMAIN pre.topologies :
        /\ pre.topologies[u].status = TopologyStatus.waiting
        /\ pre.topologies[u].last_ping < pre.now - 30000
        /\ topologies[u].status = TopologyStatus.unassigned

\* the other case of C3: waiting, pinged within 30 s, on a dead worker
C3_WitnessKept ==
    /\ RefreshCompleted
    /\ \E u \in DOMAIN pre.topologies :
        /\ pre.topologies[u].status = TopologyStatus.waiting
        /\ pre.topologies[u].last_ping >= pre.now - 30000
        /\ pre.topologies[u].worker \in DeadWorkers(workers)
        /\ topologies[u].status = TopologyStatus.waiting

Returned(name) == pc = "done" /\ op.name = name

Leaders(w) == {n \in DOMAIN w : w[n].lstatus = WorkerLStatus.leader}

Candidates(w) == {n \in DOMAIN w : w[n].lstatus = WorkerLStatus.candidate}

\* C5: getLeadershipStatus answers ok exactly when some worker of the store is
\* leader, pending exactly when none is leader and some is candidate, vacant
\* exactly when none is either.
C5_LeadershipClassified ==
    Returned("getLeadershipStatus") =>
        /\ result.err = "none"
        /\ result.leadership = LeadershipStatus.ok <=> Leaders(workers) # {}
        /\ result.leadership = LeadershipStatus.pending
              <=> (Leaders(workers) = {} /\ Candidates(workers) # {})
        /\ result.leadership = LeadershipStatus.vacant
              <=> (Leaders(workers) = {} /\ Candidates(workers) = {})

\* a leader and a candidate side by side: the answer is ok
C5_Witness ==
    /\ Returned("getLeadershipStatus")
    /\ Leaders(workers) # {}
    /\ Candidates(workers) # {}
    /\ result.leadership = LeadershipStatus.ok

\* every leader of the store at the call is not alive or was pinged more than
\* 10 s before the call
NoLiveLeader(w, t) ==
    \A n \in Leaders(w) : w[n].status # WorkerStatus.alive \/ w[n].last_ping < t - 10000

\* C6 as stated: whenever getLeadershipStatus is called while every leader is
\* not alive or pinged more than 10 s ago, the answer is not ok.
C6_NoStaleLeaderEver ==
    (Returned("getLeadershipStatus") /\ NoLiveLeader(pre.workers, pre.now))
        => result.leadership # LeadershipStatus.ok

\* C6 as amended: the same for a call whose refresh ran the sweeps.
C6_NoStaleLeaderAfterSweep ==
    (Returned("getLeadershipStatus") /\ swept /\ NoLiveLeader(pre.workers, pre.now))
        => result.leadership # LeadershipStatus.ok

\* an alive leader pinged more than 10 s before a call that sweeps: the
\* answer is not ok
C6_Witness ==
    /\ Returned("getLeadershipStatus")
    /\ swept
    /\ \E n \in Leaders(pre.workers) :
          pre.workers[n].status = WorkerStatus.alive /\ pre.workers[n].last_ping < pre.now - 10000
    /\ NoLiveLeader(pre.workers, pre.now)
    /\ result.leadership # LeadershipStatus.ok

\* a call of an operation whose own refresh was throttled, at its callback
ThrottledCompleted == ~swept /\ pc = "read"

ThrottledIsNoOp ==
    ThrottledCompleted =>
        /\ workers = pre.workers
        /\ topologies = pre.topologies
        /\ whist = pre.whist
        /\ thist = pre.thist
        /\ next_refresh = pre.next_refresh

\* C7 as stated: of any two calls of refreshStatuses less than 1000 ms apart
\* exactly one runs the sweeps, and the other leaves the store and
\* next_refresh as they are.
C7_ExactlyOneSweeps ==
    /\ \A c1, c2 \in refresh_log : c1 # c2 => c1.ran # c2.ran
    /\ ThrottledIsNoOp

\* C7 as amended: of any two calls less than 1000 ms apart at most one runs
\* the sweeps, a call that follows one that ran does not run them, and a call
\* that does not run them leaves the store and next_refresh as they are.
C7_AtMostOneSweeps ==
    /\ \A c1, c2 \in refresh_log : c1 # c2 => ~(c1.ran /\ c2.ran)
    /\ \A c1, c2 \in refresh_log : (c1.ran /\ c2.at > c1.at) => ~c2.ran
    /\ ThrottledIsNoOp

\* a call that swept and a later call within 1000 ms that was throttled and
\* has returned from its refresh
C7_Witness ==
    /\ ThrottledCompleted
    /\ \E c1, c2 \in refresh_log : c1.ran /\ ~c2.ran /\ c2.at > c1.at /\ c2.at = now

StatusReaders == {"getWorkerStatus", "getTopologyStatus", "getTopologiesForWorker"}

\* what a status reader handed to its caller holds no alive worker pinged more
\* than 30 s before the call, no waiting topology pinged more than 30 s before
\* the call, and no running topology whose worker is dead or unloaded
FreshResult ==
    /\ \A n \in DOMAIN result.workers :
          ~StaleAlive(result.workers, n, pre.now)
    /\ \A u \in DOMAIN result.topologies :
          /\ ~(/\ result.topologies[u].status = TopologyStatus.waiting
               /\ result.topologies[u].last_ping < pre.now - 30000)
          /\ ~(/\ result.topologies[u].status = TopologyStatus.running
               /\ result.topologies[u].worker \in DeadWorkers(workers))

C8_WitnessTopology ==
    /\ Returned("getTopologyStatus")
    /\ swept
    /\ \E u \in DOMAIN pre.topologies :
          /\ pre.topologies[u].status = TopologyStatus.running
          /\ pre.topologies[u].worker \in DOMAIN pre.workers
          /\ StaleAlive(pre.workers, pre.topologies[u].worker, pre.now)
          /\ result.topologies[u].status = TopologyStatus.unassigned

\* C9: clearTopologyError on a topology whose status is not error fails with
\* the invalid-transition error and leaves row and history as they are; on a
\* topology in error it sets unassigned and clears the error; on an unknown
\* uuid it fails with not-found.
C9_ClearTopologyError ==
    Returned("clearTopologyError") =>
        LET uuid == op.arg
        IN IF uuid \notin DOMAIN pre.topologies
           THEN /\ result.err = ErrNoTopology
                /\ topologies = pre.topologies
                /\ thist = pre.thist
           ELSE IF pre.topologies[uuid].status # TopologyStatus.error
           THEN /\ result.err = ErrNotError
                /\ topologies = pre.topologies
                /\ thist = pre.thist
           ELSE /\ result.err = "none"
                /\ topologies[uuid].status = TopologyStatus.unassigned
                /\ topologies[uuid].error = NoError
                /\ Len(thist[uuid]) = Len(pre.thist[uuid]) + 1

\* a running topology that carries an error text is refused
C9_Witness ==
    /\ Returned("clearTopologyError")
    /\ op.arg \in DOMAIN pre.topologies
    /\ pre.topologies[op.arg].status = TopologyStatus.running
    /\ pre.topologies[op.arg].error # NoError
    /\ result.err = ErrNotError
    /\ topologies = pre.topologies

\* the other cases of C9
C9_WitnessCleared ==
    /\ Returned("clearTopologyError")
    /\ op.arg \in DOMAIN pre.topologies
    /\ pre.topologies[op.arg].error # NoError
    /\ topologies[op.arg].status = TopologyStatus.unassigned
    /\ topologies[op.arg].error = NoError

C9_WitnessUnknown == Returned("clearTopologyError") /\ result.err = ErrNoTopology

\* C10: deleteWorker removes the row of a worker that is unloaded; for a
\* worker in any other status it fails with the invalid-state error and the
\* row stays; for an unknown name it fails with not-found.
C10_DeleteWorker ==
    Returned("deleteWorker") =>
        LET name == op.arg
        IN IF name \notin DOMAIN pre.workers
           THEN result.err = ErrNoWorker /\ DOMAIN workers = DOMAIN pre.workers
           ELSE IF pre.workers[name].status = WorkerStatus.unloaded
           THEN result.err = "none" /\ DOMAIN workers = DOMAIN pre.workers \ {name}
           ELSE result.err = ErrNotUnloaded /\ DOMAIN workers = DOMAIN pre.workers

\* a dead worker is refused and keeps its row
C10_Witness ==
    /\ Returned("deleteWorker")
    /\ op.arg \in DOMAIN pre.workers
    /\ pre.workers[op.arg].status = WorkerStatus.dead
    /\ result.err = ErrNotUnloaded
    /\ op.arg \in DOMAIN workers

\* the other cases of C10
C10_WitnessDeleted ==
    /\ Returned("deleteWorker")
    /\ op.arg \in DOMAIN pre.workers
    /\ result.err = "none"
    /\ op.arg \notin DOMAIN workers

C10_WitnessUnknown == Returned("deleteWorker") /\ result.err = ErrNoWorker

\* getMessages has fetched: res and ids_to_delete are what the caller gets
MailFetched == op.name = "getMessages" /\ pc \in {"gm_delete", "done"}

\* C11: a message returned by a getMessages call that completed with all its
\* deletes succeeding is returned by no later getMessages call.
C11_NoRedelivery ==
    MailFetched =>
        \A id \in Range(result.ids) :
            id \in DOMAIN fetched => fetched[id].err # "none"

\* send, get, get at one instant: the second get returns the empty list
\* although the message it would address is not expired
C11_Witness ==
    /\ Returned("getMessages")
    /\ result.messages = << >>
    /\ \E id \in DOMAIN fetched :
          /\ fetched[id].err = "none"
          /\ fetched[id].msg.worker = op.arg
          /\ fetched[id].msg.created = now

C12_WitnessExpired ==
    /\ MailFetched
    /\ \E id \in DOMAIN fetched :
          /\ ~fetched[id].deleted
          /\ fetched[id].msg.worker = op.arg
          /\ fetched[id].msg.valid_until < pre.now
          /\ id \notin Range(result.ids)

\* a write followed statement by statement is in flight or has called back
WriteCalled == op.name \in WriteNames /\ pc \in {"update", "history", "done"}

Last(s) == s[Len(s)]

\* C13: a write appends exactly one history row in the same atomic unit as
\* its row update: in no state that a query on another connection can read
\* is a row changed by the write in flight without exactly one new history
\* row of the entity, and that history row holds the values of the row.
C13_HistoryInSameAtomicUnit ==
    WriteCalled =>
        /\ \A n \in DOMAIN workers :
              workers[n] # pre.workers[n] =>
                  /\ Len(whist[n]) = Len(pre.whist[n]) + 1
                  /\ Last(whist[n]) = workers[n]
        /\ \A u \in DOMAIN topologies :
              topologies[u] # pre.topologies[u] =>
                  /\ Len(thist[u]) = Len(pre.thist[u]) + 1
                  /\ Last(thist[u]) = topologies[u]

IsPrefix(s, t) == Len(s) <= Len(t) /\ \A i \in DOMAIN s : s[i] = t[i]

\* C14: history is append-only.  No step of any operation, deleteTopology,
\* deleteWorker and the sweeps included, changes or removes a row of a history
\* table: the rows of every worker and of every topology before the step are
\* the first rows after it; and a step of getTopologyHistory or
\* getWorkerHistory changes no table and not next_refresh.
C14_HistoryAppendOnly ==
    [][/\ \A n \in DOMAIN whist : n \in DOMAIN whist' /\ IsPrefix(whist[n], whist'[n])
       /\ \A u \in DOMAIN thist : u \in DOMAIN thist' /\ IsPrefix(thist[u], thist'[u])
       /\ (op.name \in {"getTopologyHistory", "getWorkerHistory"}
              \/ op'.name \in {"getTopologyHistory", "getWorkerHistory"}) =>
             UNCHANGED <<workers, topologies, whist, thist, messages, next_refresh>>]_vars

\* a deleted topology and a deleted worker whose history rows are still there
C14_Witness ==
    /\ \E u \in DOMAIN thist : u \notin DOMAIN topologies /\ thist[u] # << >>
    /\ \E n \in DOMAIN whist : n \notin DOMAIN workers /\ whist[n] # << >>

\* a history reader has returned the rows of an entity, newest first
C14_WitnessRead ==
    /\ Returned("getWorkerHistory")
    /\ Len(result.data) = 2
    /\ result.data[1] = Last(whist[op.arg])

\* the messages enqueued since the operation in flight was called
NewMessages == messages \ pre.messages

\* C15: stopTopology(uuid) on a registered topology first disables it and then
\* enqueues exactly one stop-topology message to its current worker: a call
\* that returned without error left the topology disabled and, when it had a
\* worker, exactly one new message, addressed to that worker; with no worker
\* there is no new message; a message is enqueued only after the disable
\* succeeded (row disabled, history row appended), and a call that returned
\* an error enqueued none.
C15_StopDisablesThenEnqueues ==
    (op.name = "stopTopology" /\ op.arg \in DOMAIN pre.topologies) =>
        /\ (pc = "done" /\ result.err = "none") =>
              /\ ~topologies[op.arg].enabled
              /\ pre.topologies[op.arg].worker # NoWorker =>
                    \E m \in messages :
                        /\ NewMessages = {m}
                        /\ m.worker = pre.topologies[op.arg].worker
                        /\ m.cmd = "stop_topology"
              /\ pre.topologies[op.arg].worker = NoWorker => NewMessages = {}
        /\ NewMessages # {} =>
              /\ ~topologies[op.arg].enabled
              /\ Len(thist[op.arg]) = Len(pre.thist[op.arg]) + 1
        /\ (pc = "done" /\ result.err # "none") => NewMessages = {}

\* C15, amended: stopTopology(uuid) on a topology that has a worker first
\* disables it and then enqueues exactly one stop-topology message, valid for
\* 30 s, to that worker; on a topology with no worker it does nothing: the
\* topology is not disabled, no history row is appended, no message is
\* enqueued and the call succeeds.  A message is enqueued only after the
\* disable succeeded, and a call that returned an error enqueued none.
C15_StopAssignedDisablesThenEnqueues ==
    (op.name = "stopTopology" /\ op.arg \in DOMAIN pre.topologies) =>
        /\ (pc = "done" /\ result.err = "none" /\ pre.topologies[op.arg].worker # NoWorker) =>
              /\ topologies[op.arg] = [pre.topologies[op.arg] EXCEPT !.enabled = FALSE]
              /\ \E m \in messages :
                    /\ NewMessages = {m}
                    /\ m.worker = pre.topologies[op.arg].worker
                    /\ m.cmd = "stop_topology"
                    /\ m.content = op.arg
                    /\ m.valid_until = pre.now + 30 * 1000
        /\ pre.topologies[op.arg].worker = NoWorker =>
              /\ topologies = pre.topologies
              /\ thist = pre.thist
              /\ NewMessages = {}
              /\ result.err = "none"
        /\ NewMessages # {} =>
              /\ ~topologies[op.arg].enabled
              /\ Len(thist[op.arg]) = Len(pre.thist[op.arg]) + 1
              /\ Last(thist[op.arg]) = topologies[op.arg]
        /\ (pc = "done" /\ result.err # "none") => NewMessages = {}

\* stopTopology returned after disabling an enabled topology and enqueueing
\* the message to its worker
C15_Witness ==
    /\ Returned("stopTopology")
    /\ op.arg \in DOMAIN pre.topologies
    /\ pre.topologies[op.arg].enabled
    /\ ~topologies[op.arg].enabled
    /\ \E m \in NewMessages : m.worker = pre.topologies[op.arg].worker

\* stopTopology returned from a topology with no worker, which is still enabled
C15_WitnessNoWorker ==
    /\ Returned("stopTopology")
    /\ op.arg \in DOMAIN pre.topologies
    /\ pre.topologies[op.arg].worker = NoWorker
    /\ topologies[op.arg].enabled
    /\ result.err = "none"

\* stopTopology returned the error of the disable
C15_WitnessDisableFailed ==
    /\ Returned("stopTopology")
    /\ op.arg \in DOMAIN pre.topologies
    /\ pre.topologies[op.arg].worker # NoWorker
    /\ result.err = ErrQuery
    /\ NewMessages = {}

\* the write in flight names a worker or a topology that had no row when it
\* was called
UnknownTarget(o) ==
    IF o.name \in WorkerWrites
    THEN o.arg \notin DOMAIN pre.workers
    ELSE o.arg \notin DOMAIN pre.topologies

\* C16: a write called with a uuid that has no topology row, or with a name
\* that has no worker row, returns an error to the caller and changes no
\* state: no row and no history row is created.
C16_UnknownEntityIsAnError ==
    (pc = "done" /\ op.name \in WriteNames /\ UnknownTarget(op)) =>
        /\ result.err # "none"
        /\ workers = pre.workers
        /\ topologies = pre.topologies
        /\ whist = pre.whist
        /\ thist = pre.thist

\* what the worker sweep owes a worker of the snapshot: dead if it was alive
\* and pinged more than 30 s before, lstatus normal if it held a claim and was
\* not alive, or was alive and pinged more than 10 s before
WorkerSwept(n) ==
    /\ StaleAlive(pre.workers, n, pre.now) => workers[n].status = WorkerStatus.dead
    /\ (/\ pre.workers[n].lstatus # WorkerLStatus.normal
        /\ \/ pre.workers[n].status # WorkerStatus.alive
           \/ pre.workers[n].last_ping < pre.now - 10000)
          => workers[n].lstatus = WorkerLStatus.normal

\* the candidacy routine of the call in flight has been invoked
CandidacyAnnounced == "announced" \in DOMAIN result

\* C17: announceLeaderCandidacy runs the whole worker sweep, whatever
\* next_refresh is, before the candidacy routine: when the routine is about to
\* be invoked every worker has what the sweep owes it, and afterwards every
\* worker but the candidate still has; the call runs no topology sweep and
\* leaves next_refresh; if a query of the sweep fails the routine is not
\* invoked, no worker becomes candidate or leader, and the error is returned.
C17_SweepBeforeCandidacy ==
    op.name = "announceLeaderCandidacy" =>
        /\ next_refresh = pre.next_refresh
        /\ topologies = pre.topologies
        /\ thist = pre.thist
        /\ pc = "announce" => \A n \in DOMAIN pre.workers : WorkerSwept(n)
        /\ CandidacyAnnounced =>
              /\ result.err = "none"
              /\ \A n \in DOMAIN pre.workers \ {op.arg} : WorkerSwept(n)
        /\ pc = "done" => (CandidacyAnnounced <=> result.err = "none")
        /\ ~CandidacyAnnounced =>
              \A n \in DOMAIN pre.workers :
                  workers[n].lstatus \in {pre.workers[n].lstatus, WorkerLStatus.normal}

\* a call made while refreshStatuses would be throttled has swept a claimant
\* and invoked the routine
C17_Witness ==
    /\ Returned("announceLeaderCandidacy")
    /\ CandidacyAnnounced
    /\ pre.now < pre.next_refresh
    /\ \E n \in DOMAIN pre.workers \ {op.arg} :
          /\ pre.workers[n].lstatus # WorkerLStatus.normal
          /\ workers[n].lstatus = WorkerLStatus.normal

\* a call has demoted a stale worker and left a stale waiting topology alone
C17_WitnessNoTopologySweep ==
    /\ Returned("announceLeaderCandidacy")
    /\ CandidacyAnnounced
    /\ \E n \in DOMAIN pre.workers :
          StaleAlive(pre.workers, n, pre.now) /\ workers[n].status = WorkerStatus.dead
    /\ \E u \in DOMAIN topologies :
          /\ topologies[u].status = TopologyStatus.waiting
          /\ topologies[u].last_ping < pre.now - 30000

\* a call whose sweep failed has returned the error without the routine
C17_WitnessSweepFailed ==
    /\ Returned("announceLeaderCandidacy")
    /\ result.err = ErrQuery
    /\ ~CandidacyAnnounced
    /\ workers # pre.workers

\* C18: assignTopology(uuid, name) on a topology that exists, whatever its
\* status, sets status waiting, worker name and last_ping to the time of the
\* call and leaves every other column of the row (enabled, weight,
\* worker_affinity, error, config), every other row and the worker table as
\* they were; it appends the new row to the history; name need not be the
\* name of a worker.
C18_AssignTopology ==
    (Returned("assignTopology") /\ result.err = "none" /\ op.arg \in DOMAIN pre.topologies) =>
        /\ topologies = [pre.topologies EXCEPT
                            ![op.arg] = [@ EXCEPT !.status = TopologyStatus.waiting,
                                                  !.worker = op.val.worker,
                                                  !.last_ping = pre.now]]
        /\ workers = pre.workers
        /\ thist = [pre.thist EXCEPT ![op.arg] = Append(@, topologies[op.arg])]
        /\ whist = pre.whist

\* a topology in status error, with an error message, has been
\* assigned to a name that no worker has, some time after its last write
C18_Witness ==
    /\ Returned("assignTopology")
    /\ result.err = "none"
    /\ op.arg \in DOMAIN pre.topologies
    /\ pre.topologies[op.arg].status = TopologyStatus.error
    /\ pre.topologies[op.arg].error # NoError
    /\ pre.topologies[op.arg].last_ping < pre.now
    /\ op.val.worker \notin DOMAIN workers
    /\ topologies[op.arg].status = TopologyStatus.waiting
    /\ topologies[op.arg].error = pre.topologies[op.arg].error

\* an alive worker holding a claim whose ping is more than 10 s and at most
\* 30 s old at time t
StalledClaimant(w, n, t) ==
    /\ w[n].status = WorkerStatus.alive
    /\ w[n].lstatus # WorkerLStatus.normal
    /\ w[n].last_ping < t - 10000
    /\ w[n].last_ping >= t - 30000

\* C19: every worker that is alive, candidate or leader, and pinged more
\* than 10 s but not more than 30 s before the sweep runs has lstatus normal
\* and status alive when the refresh has completed; an alive candidate or
\* leader pinged at most 10 s before keeps its lstatus and its status.
C19_StalledClaimReset ==
    RefreshCompleted =>
        \A n \in DOMAIN pre.workers :
            /\ StalledClaimant(pre.workers, n, pre.now) =>
                  /\ workers[n].lstatus = WorkerLStatus.normal
                  /\ workers[n].status = WorkerStatus.alive
            /\ (/\ pre.workers[n].status = WorkerStatus.alive
                /\ pre.workers[n].lstatus # WorkerLStatus.normal
                /\ pre.workers[n].last_ping >= pre.now - 10000)
                  => workers[n] = pre.workers[n]

\* a sweep resets a claimant pinged exactly 30 s before, which stays alive
C19_Witness ==
    /\ RefreshCompleted
    /\ \E n \in DOMAIN pre.workers :
          /\ StalledClaimant(pre.workers, n, pre.now)
          /\ pre.workers[n].last_ping = pre.now - 30000
          /\ workers[n].lstatus = WorkerLStatus.normal
          /\ workers[n].status = WorkerStatus.alive

\* a sweep keeps the claim of an alive worker pinged exactly 10 s before
C19_WitnessKept ==
    /\ RefreshCompleted
    /\ \E m \in DOMAIN pre.workers :
          /\ pre.workers[m].status = WorkerStatus.alive
          /\ pre.workers[m].lstatus # WorkerLStatus.normal
          /\ pre.workers[m].last_ping = pre.now - 10000
          /\ workers[m].lstatus = pre.workers[m].lstatus

\* a claimant pinged 10001 ms before is reset
C19_WitnessJustStalled ==
    /\ RefreshCompleted
    /\ \E n \in DOMAIN pre.workers :
          /\ StalledClaimant(pre.workers, n, pre.now)
          /\ pre.workers[n].last_ping = pre.now - 10001
          /\ workers[n].lstatus = WorkerLStatus.normal

\* the topology sweep of the refresh in flight has started
TopologySweepStarted == pc \in {"uwt", "uwt_topologies", "uwt_write"}

\* C20: inside refreshStatuses the topology sweep starts only when every
\* update of the worker sweep has completed: while it runs no update of a
\* worker is in flight, every worker has what the worker sweep owes it, and
\* the dead workers it decides on are those of the table as the worker sweep
\* left it.  If a query of the worker sweep fails, the topology sweep is not
\* started (no topology row is written), the operation makes no read and its
\* caller receives the error.
C20_TopologySweepAfterWorkerSweep ==
    op.name = "getWorkerStatus" =>
        /\ TopologySweepStarted =>
              /\ wtodo = Empty
              /\ result.err = "none"
              /\ \A n \in DOMAIN pre.workers : WorkerSwept(n)
        /\ pc \in {"uwt_topologies", "uwt_write"} => dead_workers = DeadWorkers(workers)
        /\ result.err # "none" =>
              /\ pc \in {"ddw_failed", "done"}
              /\ topologies = pre.topologies
              /\ thist = pre.thist
              /\ result.workers = Empty

\* the topology sweep has started after the worker sweep demoted a worker
C20_Witness ==
    /\ op.name = "getWorkerStatus"
    /\ pc = "uwt"
    /\ \E n \in DOMAIN pre.workers :
          StaleAlive(pre.workers, n, pre.now) /\ workers[n].status = WorkerStatus.dead

\* getWorkerStatus has returned the error of a worker sweep that was partly
\* applied, and a waiting topology that is stale has been left as it was
C20_WitnessFailed ==
    /\ Returned("getWorkerStatus")
    /\ result.err = ErrQuery
    /\ workers # pre.workers
    /\ \E u \in DOMAIN topologies :
          /\ topologies[u].status = TopologyStatus.waiting
          /\ topologies[u].last_ping < pre.now - 30000


\* ------------------------------------------------------------------------
\* The frame of the reassignment sweep

\* whether the topology sweep of a refresh unassigns the topology row p: the
\* workers are those the worker sweep of the same refresh has left
SweepUnassigns(p, w, t) ==
    \/ p.status = TopologyStatus.waiting /\ p.last_ping < t - 30000
    \/ p.status = TopologyStatus.running /\ p.worker \in DeadWorkers(w)

\* C21: when a refresh has completed, a topology that was neither waiting with
\* a last_ping more than 30 s old nor running on a worker that is dead or
\* unloaded is exactly as it was at the call, in particular every topology
\* with status error or unassigned; a topology the sweep unassigns differs
\* from what it was in status, error and last_ping only, so worker, enabled,
\* weight, worker_affinity and config keep their values.  A throttled refresh
\* changes no topology.
C21_ReassignmentFrame ==
    pc = "read" =>
        \A u \in DOMAIN pre.topologies :
            LET p == pre.topologies[u]
            IN /\ u \in DOMAIN topologies
               /\ IF swept /\ SweepUnassigns(p, workers, pre.now)
                  THEN topologies[u] = [p EXCEPT !.status = TopologyStatus.unassigned,
                                                 !.error = NoError,
                                                 !.last_ping = pre.now]
                  ELSE topologies[u] = p

\* a running topology with an error text, on a worker this refresh demotes, is
\* unassigned: its error is cleared and its worker column still names the worker
C21_Witness ==
    /\ RefreshCompleted
    /\ \E u \in DOMAIN pre.topologies :
        /\ pre.topologies[u].status = TopologyStatus.running
        /\ pre.topologies[u].error # NoError
        /\ pre.topologies[u].worker \in DeadWorkers(workers)
        /\ pre.topologies[u].last_ping < pre.now
        /\ topologies[u].status = TopologyStatus.unassigned
        /\ topologies[u].error = NoError
        /\ topologies[u].last_ping = pre.now
        /\ topologies[u].worker = pre.topologies[u].worker

\* a topology in status error, assigned to a dead worker and last pinged more
\* than 30 s before, is left as it is
C21_WitnessError ==
    /\ RefreshCompleted
    /\ \E u \in DOMAIN pre.topologies :
        /\ pre.topologies[u].status = TopologyStatus.error
        /\ pre.topologies[u].worker \in DeadWorkers(workers)
        /\ pre.topologies[u].last_ping < pre.now - 30000
        /\ topologies[u] = pre.topologies[u]


\* ------------------------------------------------------------------------
\* Fan-out: the first error, once, and no rollback

CalledBackWithError == "callbacks" \in DOMAIN result

\* the worker rows as the sweep of the operation leaves a worker whose series
\* ran to its end
SweptWorker(n) ==
    LET plan == disableDefunctWorkerSingle(pre.workers[n], pre.now)
    IN /\ "status" \in Range(plan) => workers[n].status = WorkerStatus.dead
       /\ "lstatus" \in Range(plan) => workers[n].lstatus = WorkerLStatus.normal
       /\ plan # << >> => workers[n].last_ping = pre.now

\* C22: when a query of a fan-out fails (a write of the worker sweep, a write
\* of the topology sweep, a DELETE of getMessages), the caller's callback is
\* invoked once, with the error of the item that failed first, however many
\* items fail or complete afterwards; and when every query has come back,
\* each item that did not fail has had its effect: the worker is swept, the
\* topology is unassigned, the message row is gone.
C22_FailFastNoRollback ==
    CalledBackWithError =>
        /\ result.callbacks = 1
        /\ result.err = ErrQuery
        /\ result.from = Head(result.errors)
        /\ pc = "done" =>
            IF op.name = "getMessages"
            THEN \A id \in Range(result.ids) \ Range(result.errors) :
                    \A r \in messages : r.id # id
            ELSE IF result.from \in DOMAIN pre.workers
            THEN \A n \in DOMAIN pre.workers \ Range(result.errors) : SweptWorker(n)
            ELSE /\ \A n \in DOMAIN pre.workers : SweptWorker(n)
                 /\ \A u \in DOMAIN pre.topologies \ Range(result.errors) :
                        SweepUnassigns(pre.topologies[u], workers, pre.now)
                            => topologies[u].status = TopologyStatus.unassigned

\* the worker sweep: the write for one worker failed, the caller has the
\* error, and the other worker has been demoted all the same
C22_Witness ==
    /\ CalledBackWithError
    /\ pc = "done"
    /\ op.name = "getWorkerStatus"
    /\ result.from \in DOMAIN pre.workers
    /\ \E n \in DOMAIN pre.workers \ Range(result.errors) :
        /\ pre.workers[n].status = WorkerStatus.alive
        /\ workers[n].status = WorkerStatus.dead

\* the caller has the error while a sibling is still in flight
C22_WitnessInFlight ==
    /\ CalledBackWithError
    /\ pc \in {"ddw_failed", "uwt_failed"}
    /\ result.callbacks = 1

\* a second item failed after the first
C22_WitnessLaterFailure ==
    /\ CalledBackWithError
    /\ pc = "done"
    /\ Len(result.errors) = 2
    /\ result.errors[1] # result.errors[2]

\* the topology sweep: one write failed, the other topology is unassigned
C22_WitnessTopologies ==
    /\ CalledBackWithError
    /\ pc = "done"
    /\ op.name = "getWorkerStatus"
    /\ result.from \in DOMAIN pre.topologies
    /\ topologies[result.from].status # TopologyStatus.unassigned
    /\ \E u \in DOMAIN pre.topologies \ Range(result.errors) :
        /\ pre.topologies[u].status # TopologyStatus.unassigned
        /\ topologies[u].status = TopologyStatus.unassigned

\* getMessages: one DELETE failed, the row of the other message is gone, and
\* the caller has both messages with the error
C22_WitnessMessages ==
    /\ CalledBackWithError
    /\ pc = "done"
    /\ op.name = "getMessages"
    /\ Len(result.errors) = 1
    /\ Len(result.messages) = 2
    /\ \E r \in messages : r.id = result.from
    /\ \E id \in Range(result.ids) : \A r \in messages : r.id # id


\* ------------------------------------------------------------------------
\* Concurrent sweeps

\* the rows are those one sweep of the store of the call leaves
SameRowsAsSingleSweep ==
    /\ workers = WorkerSweep(pre.workers, pre.now)
    /\ topologies = TopologySweep(pre.topologies, WorkerSweep(pre.workers, pre.now), pre.now)

\* the history is the one that sweep leaves
SameHistoryAsSingleSweep ==
    /\ whist = WorkerSweepHistory(pre.whist, pre.workers, pre.now)
    /\ thist = TopologySweepHistory(pre.thist, pre.topologies,
                                    WorkerSweep(pre.workers, pre.now), pre.now)

\* C23: when the refresh of this instance has completed, with the refresh of
\* another instance run concurrently over the same store, the worker rows,
\* the topology rows and the two histories are those a single sweep leaves.
C23_ConcurrentSweepsIdempotent ==
    RefreshCompleted => SameRowsAsSingleSweep /\ SameHistoryAsSingleSweep

\* the part of C23 about the rows alone
C23_ConcurrentSweepsSameRows == RefreshCompleted => SameRowsAsSingleSweep


\* ------------------------------------------------------------------------
\* Two leaders

\* C24: when getLeadershipStatus returns while two or more workers of the
\* store are leader, it returns ok without an error; such a store is reached
\* by two calls of setWorkerLStatus and survives the sweeps while both
\* workers are alive and recently pinged.
C24_TwoLeadersReportOk ==
    (Returned("getLeadershipStatus") /\ Cardinality(Leaders(workers)) >= 2) =>
        /\ result.err = "none"
        /\ result.leadership = LeadershipStatus.ok

\* two calls of setWorkerLStatus made both workers leader, the sweeps of the
\* refresh ran 10 s later and left both, and the answer is ok
C24_Witness ==
    /\ Returned("getLeadershipStatus")
    /\ swept
    /\ pre.now = 10000
    /\ \E n, m \in DOMAIN workers :
        /\ n # m
        /\ pre.workers[n].lstatus = WorkerLStatus.leader
        /\ pre.workers[m].lstatus = WorkerLStatus.leader
        /\ workers[n].lstatus = WorkerLStatus.leader
        /\ workers[m].lstatus = WorkerLStatus.leader
        /\ workers[n].status = WorkerStatus.alive
        /\ workers[m].status = WorkerStatus.alive
    /\ result.leadership = LeadershipStatus.ok


\* ------------------------------------------------------------------------
\* Death detection after the last heartbeat

\* C25: in a store whose workers sent their last heartbeat at time 0, a
\* refresh that runs its sweeps later than 30 s leaves no worker alive,
\* whatever its lstatus and however many sweeps ran before; and a worker that
\* a sweep leaves alive still has the last_ping of its heartbeat.
C25_DeadWithin30sOfLastHeartbeat ==
    RefreshCompleted =>
        \A n \in DOMAIN workers :
            /\ pre.now > 30000 => workers[n].status # WorkerStatus.alive
            /\ workers[n].status = WorkerStatus.alive => workers[n].last_ping = 0


\* ------------------------------------------------------------------------
\* Writes decided on a snapshot, with other callers in between

\* C26: while a write of the worker sweep is in flight, that is at every
\* moment at which it can reach the store, the stored row of its worker
\* warrants it: for status = dead the stored last_ping is more than 30 s
\* old, for the lstatus reset the stored status is not alive or the stored
\* last_ping is more than 10 s old.
C26_SweepNeverDemotesLiveWorker ==
    pc = "ddw_write" =>
        \A n \in DOMAIN wtodo :
            (wtodo[n].writes # << >> /\ n \in DOMAIN workers) =>
                IF Head(wtodo[n].writes) = "status"
                THEN workers[n].last_ping < now - 30000
                ELSE \/ workers[n].status # WorkerStatus.alive
                     \/ workers[n].last_ping < now - 10000


\* C27: while a write of the topology sweep is in flight, that is at every
\* moment at which it can reach the store, the stored topology is waiting
\* with a last_ping more than 30 s old or running on a worker that is dead
\* or unloaded; so no acknowledgement and no assignment made after the
\* sweep's read is overwritten with unassigned.
C27_SweepNeverUnassignsAcknowledged ==
    pc = "uwt_write" =>
        \A u \in DOMAIN ttodo :
            u \in DOMAIN topologies =>
                \/ /\ topologies[u].status = TopologyStatus.waiting
                   /\ topologies[u].last_ping < now - 30000
                \/ /\ topologies[u].status = TopologyStatus.running
                   /\ topologies[u].worker \in DeadWorkers(workers)


\* C28: while the write of clearTopologyError is in flight, that is at every
\* moment at which it can reach the store, the stored status of the topology
\* is error: the clear never replaces a status that another operation has
\* written since the clear read the row.
C28_ClearOnlyFromError ==
    pc = "cte_write" =>
        (op.arg \in DOMAIN topologies =>
            topologies[op.arg].status = TopologyStatus.error)


\* C29: no step removes a worker row whose stored status is not unloaded:
\* the row that a step removes is the one deleteWorker was called for, and
\* its stored status at that step is unloaded.  When the status has been
\* changed since deleteWorker read it, the DELETE leaves the table as it is.
C29_DeleteOnlyUnloaded ==
    [][\A n \in DOMAIN workers :
          n \notin DOMAIN workers' =>
              /\ pc = "dw_delete"
              /\ n = op.arg
              /\ workers[n].status = WorkerStatus.unloaded]_vars

\* deleteWorker read its worker as unloaded and issued the DELETE; the worker
\* became alive in between, and its row is still there
C29_Witness ==
    /\ Returned("deleteWorker")
    /\ result.err = "none"
    /\ op.arg \in DOMAIN result.workers
    /\ result.workers[op.arg].status = WorkerStatus.unloaded
    /\ op.arg \in DOMAIN workers
    /\ workers[op.arg].status = WorkerStatus.alive

\* without a write in between, the row is gone
C29_WitnessDeleted ==
    /\ Returned("deleteWorker")
    /\ result.err = "none"
    /\ op.arg \in DOMAIN result.workers
    /\ op.arg \notin DOMAIN workers


\* ------------------------------------------------------------------------
\* Orphaned assignments

\* C30: when a refresh that ran its sweeps has completed, every topology that
\* was running at the call on a worker that is dead or unloaded, or whose row
\* deleteWorker has removed, is unassigned.
C30_NoOrphanAfterWorkerRemoval ==
    RefreshCompleted =>
        \A u \in DOMAIN pre.topologies :
            (/\ pre.topologies[u].status = TopologyStatus.running
             /\ \/ pre.topologies[u].worker \in DeadWorkers(workers)
                \/ pre.topologies[u].worker \in WorkerNames \ DOMAIN workers)
                => topologies[u].status = TopologyStatus.unassigned

\* ------------------------------------------------------------------------
\* Overlapping polls

\* C31: when a getMessages call has called back with all its deletes
\* succeeding, none of the messages it returned has also been returned by a
\* getMessages call whose deletes all succeeded, the calls that overlapped
\* with it included.
C31_NoDuplicateDeliveryWhenOverlapping ==
    (/\ Returned("getMessages")
     /\ result.err = "none"
     /\ result.failed = {})
        => \A id \in Range(result.ids) :
              ~(/\ id \in DOMAIN fetched
                /\ fetched[id].deleted
                /\ fetched[id].err = "none")

====
